---- MODULE Spec2Model ----
(***************************************************************************)
(* Model of the document-chunking and semantic-retrieval engine of         *)
(* hae-gpt: GPTGuidedChunker (src/src/gpt_chunker.py), the page loop of    *)
(* GPTDocumentProcessor.process_documents (src/src/document_processor.py), *)
(* FaissVectorStore (src/src/vector_store.py), Retriever                   *)
(* (src/src/retriever.py), EmbeddingService (src/src/embedding_service.py) *)
(* with the ingestion steps of src/setup_pipeline.py, and the citations of *)
(* Generator.generate_with_citations (src/src/generator.py).               *)
(*                                                                         *)
(* Texts are sequences of symbols.  A symbol is one character, except that *)
(* a header word and a table marker are one symbol each:                   *)
(*   "A"/"a"  abstract | özet          "R"/"r"  references | bibliography  *)
(*   "E"/"e"  appendix | ek                     | kaynaklar                *)
(*   "T"      a table marker ("[TABLE DATA]", "| --- | --- |", tab-bar-tab)*)
(*   ":" "|"  themselves    "n" newline    " " space    "1" a digit        *)
(*   "x"      any other character; "b" "c" "d" "f" "g" "h" "k" "m" letters *)
(* Lengths are counted in symbols, and the three length constants of the   *)
(* chunker (200, 1000, 12000) are scaled down, keeping their order.        *)
(***************************************************************************)
EXTENDS Integers, Sequences, FiniteSets, TLC

VARIABLES
    \* ---- chunker / document processor
    text,               \* the page text handed to chunk_text
    advisory,           \* the advisory's answers, one per request, in call order
    use_gpt_chunking,   \* GPTDocumentProcessor.use_gpt_chunking
    pc,                 \* position of the caller: "ready", "returned", "raised", "idle"
    op,                 \* the operation that ran last
    split_indices,      \* chunk_text's local split_indices
    requests,           \* number of advisory requests made by the call
    chunks,             \* the list chunk_text returned
    all_documents,      \* process_documents' all_documents
    \* ---- vector store / retriever
    index,              \* FaissVectorStore.index: the stored vectors, by position
    documents,          \* FaissVectorStore.documents
    doc_ids,            \* FaissVectorStore.doc_ids
    dimension,          \* FaissVectorStore.dimension
    disk,               \* the two artifacts at the store path: path.index, path.metadata
    ret,                \* what the last store / retriever call returned
    \* ---- calls in progress
    stack,              \* chunk_text in steps: the segments _ask_gpt_for_splits has still to ask about
    chunk_i,            \* chunk_text in steps: position of the chunk loop in split_indices
    writers,            \* per thread: how far its add_documents call has got
    lock,               \* the thread holding the writer lock, 0 when free
    use_lock            \* whether add_documents runs under a single-writer lock

chunk_vars == <<text, advisory, use_gpt_chunking, op, split_indices, requests,
                chunks, all_documents>>
store_vars == <<index, documents, doc_ids>>
persist_vars == <<dimension, disk>>
step_vars == <<stack, chunk_i, writers, lock, use_lock>>
vars == <<text, advisory, use_gpt_chunking, pc, op, split_indices, requests,
          chunks, all_documents, index, documents, doc_ids, dimension, disk, ret,
          stack, chunk_i, writers, lock, use_lock>>

Min(a, b) == IF a < b THEN a ELSE b
Max(a, b) == IF a > b THEN a ELSE b

(***************************************************************************)
(* Bounds of the model.                                                    *)
(***************************************************************************)
MaxTextLen == 3     \* texts over the full alphabet have at most this many symbols
MaxExtra == 2       \* long plain texts exceed MAX_CHARS by at most this much

(***************************************************************************)
(* Program constants (scaled).                                             *)
(***************************************************************************)
PREFIX_LEN == 3     \* [:200] of _classify_section
STRIDE == 2         \* the fallback's range(0, len(text), 1000)
MAX_CHARS == 4      \* MAX_CHARS = 12000

(***************************************************************************)
(* Python string primitives.                                               *)
(***************************************************************************)
Chars == {"A", "R", "E", ":", "n", " ", "x", "T"}
Digits == {"1"}
IsSpace(c) == c \in {" ", "n"}

\* str.lower(), symbol by symbol
LowerChar(c) ==
    CASE c = "A" -> "a"
      [] c = "R" -> "r"
      [] c = "E" -> "e"
      [] c = "T" -> "t"
      [] OTHER -> c
Lower(t) == [i \in 1..Len(t) |-> LowerChar(t[i])]

\* str.strip(): leading and trailing whitespace removed
Strip(t) ==
    LET solid == {i \in 1..Len(t) : ~IsSpace(t[i])}
    IN  IF solid = {} THEN <<>>
        ELSE LET first == CHOOSE i \in solid : \A j \in solid : i <= j
                 last == CHOOSE i \in solid : \A j \in solid : j <= i
             IN  SubSeq(t, first, last)

\* t[:n] for n >= 0
Prefix(t, n) == SubSeq(t, 1, Min(n, Len(t)))

\* t[start:end] with Python's treatment of negative and out-of-range bounds
SliceBound(i, n) == IF i < 0 THEN Max(i + n, 0) ELSE Min(i, n)
PySlice(t, start, end) ==
    LET s == SliceBound(start, Len(t))
        e == SliceBound(end, Len(t))
    IN  IF s < e THEN SubSeq(t, s + 1, e) ELSE <<>>

\* list(range(0, n, STRIDE))
FallbackOffsets(n) == [i \in 1..((n + STRIDE - 1) \div STRIDE) |-> (i - 1) * STRIDE]

(***************************************************************************)
(* GPTGuidedChunker                                                        *)
(***************************************************************************)
\* re.match(r"^(abstract|özet)\s*[:|\n]", t)
MatchAbstract(t) ==
    /\ Len(t) >= 2
    /\ t[1] = "a"
    /\ \E j \in 2..Len(t) :
          /\ t[j] \in {":", "|", "n"}
          /\ \A i \in 2..(j - 1) : IsSpace(t[i])

\* re.match(r"^(references|bibliography|kaynaklar)", t)
MatchReferences(t) == Len(t) >= 1 /\ t[1] = "r"

\* re.match(r"^(appendix|ek)\s*[:\d]", t)
MatchAppendix(t) ==
    /\ Len(t) >= 2
    /\ t[1] = "e"
    /\ \E j \in 2..Len(t) :
          /\ t[j] \in {":"} \cup Digits
          /\ \A i \in 2..(j - 1) : IsSpace(t[i])

\* _classify_section without lower()
_classify_section_NoLower(t) ==
    LET text_lower == Prefix(Strip(t), PREFIX_LEN)
    IN  IF MatchAbstract(text_lower) THEN "abstract"
        ELSE IF MatchReferences(text_lower) THEN "references"
        ELSE IF MatchAppendix(text_lower) THEN "appendix"
        ELSE "content"

_classify_section(t) ==
    LET text_lower == Prefix(Strip(Lower(t)), PREFIX_LEN)
    IN  IF MatchAbstract(text_lower) THEN "abstract"
        ELSE IF MatchReferences(text_lower) THEN "references"
        ELSE IF MatchAppendix(text_lower) THEN "appendix"
        ELSE "content"

\* _has_table_markers looking at the classified prefix only
_has_table_markers_PrefixOnly(t) == \E i \in 1..Min(Len(t), PREFIX_LEN) : t[i] = "T"

_has_table_markers(t) == \E i \in 1..Len(t) : t[i] = "T"

\* One advisory answer: the request raised inside the try block ("error": the
\* backend failed, or its answer was no JSON object), it returned a list of
\* integers ("ok"), or it returned a JSON object whose split_indices cannot be
\* used as a list of integers ("malformed": chunk_text raises TypeError).
ErrorAnswer == [kind |-> "error", split_indices |-> <<>>]
MalformedAnswer == [kind |-> "malformed", split_indices |-> <<>>]
OkAnswer(s) == [kind |-> "ok", split_indices |-> s]

\* Number of advisory requests _ask_gpt_for_splits makes for a text of n symbols
RECURSIVE NumRequests(_)
NumRequests(n) == IF n > MAX_CHARS THEN 1 + NumRequests(n - MAX_CHARS) ELSE 1

\* _ask_gpt_for_splits(text), the advisory answering adv[1], adv[2], ... in the
\* order of the requests.  used: the number of requests made.
RECURSIVE _ask_gpt_for_splits(_, _)
_ask_gpt_for_splits(t, adv) ==
    IF Len(t) > MAX_CHARS
    THEN LET splits == _ask_gpt_for_splits(SubSeq(t, 1, MAX_CHARS), adv)
             remaining_splits ==
                 _ask_gpt_for_splits(SubSeq(t, MAX_CHARS + 1, Len(t)),
                                     SubSeq(adv, splits.used + 1, Len(adv)))
             bad == splits.raised \/ remaining_splits.raised
         IN  [raised |-> bad,
              splits |-> IF bad THEN <<>>
                         ELSE splits.splits \o
                              [i \in 1..Len(remaining_splits.splits) |->
                                  remaining_splits.splits[i] + MAX_CHARS],
              used |-> splits.used + remaining_splits.used]
    ELSE CASE adv[1].kind = "ok" ->
                [raised |-> FALSE, splits |-> adv[1].split_indices, used |-> 1]
           [] adv[1].kind = "error" ->
                [raised |-> FALSE, splits |-> FallbackOffsets(Len(t)), used |-> 1]
           [] OTHER ->
                [raised |-> TRUE, splits |-> <<>>, used |-> 1]

NoChunkId == -1

\* ContentChunks without the "if chunk_text:" test
ContentChunks_KeepEmpty(t, s) ==
    [i \in 1..Len(s) |->
        [content |-> Strip(PySlice(t, s[i], IF i + 1 <= Len(s) THEN s[i + 1] ELSE Len(t))),
         section_type |-> "none",
         has_table |-> FALSE,
         chunk_id |-> i - 1,
         total_chunks |-> Len(s),
         chunk_strategy |-> "gpt_guided"]]

\* ContentChunks ending the last span at the stride instead of len(text)
ContentChunks_CutsTail(t, s) ==
    LET span(i) == Strip(PySlice(t, s[i], IF i + 1 <= Len(s) THEN s[i + 1] ELSE s[i] + STRIDE))
        cand == [i \in 1..Len(s) |->
                    [content |-> span(i),
                     section_type |-> "none",
                     has_table |-> FALSE,
                     chunk_id |-> i - 1,
                     total_chunks |-> Len(s),
                     chunk_strategy |-> "gpt_guided"]]
    IN  SelectSeq(cand, LAMBDA c : c.content # <<>>)

\* The chunks of Rule 4, from the offsets
ContentChunks(t, s) ==
    LET span(i) == Strip(PySlice(t, s[i], IF i + 1 <= Len(s) THEN s[i + 1] ELSE Len(t)))
        cand == [i \in 1..Len(s) |->
                    [content |-> span(i),
                     section_type |-> "none",
                     has_table |-> FALSE,
                     chunk_id |-> i - 1,
                     total_chunks |-> Len(s),
                     chunk_strategy |-> "gpt_guided"]]
    IN  SelectSeq(cand, LAMBDA c : c.content # <<>>)

\* chunk_text(text): what it returns (or that it raised), its split_indices and
\* the number of advisory requests it made
chunk_text(t, adv) ==
    LET section_type == _classify_section(t)
        none == [raised |-> FALSE, chunks |-> <<>>, split_indices |-> <<>>, requests |-> 0]
    IN  IF section_type = "abstract"
        THEN [none EXCEPT !.chunks =
                 <<[content |-> t, section_type |-> "abstract", has_table |-> FALSE,
                    chunk_id |-> NoChunkId, total_chunks |-> NoChunkId,
                    chunk_strategy |-> "single_abstract"]>>]
        ELSE IF section_type \in {"references", "appendix"}
        THEN none
        ELSE IF _has_table_markers(t)
        THEN [none EXCEPT !.chunks =
                 <<[content |-> t, section_type |-> "none", has_table |-> TRUE,
                    chunk_id |-> NoChunkId, total_chunks |-> NoChunkId,
                    chunk_strategy |-> "single_table"]>>]
        ELSE LET g == _ask_gpt_for_splits(t, adv)
             IN  [raised |-> g.raised,
                  chunks |-> IF g.raised THEN <<>> ELSE ContentChunks(t, g.splits),
                  split_indices |-> g.splits,
                  requests |-> g.used]

(***************************************************************************)
(* GPTDocumentProcessor.process_documents, one page                        *)
(***************************************************************************)
\* Document(page_content=chunk["content"], metadata={**chunk["metadata"], ...})
ChunkDocument(c) ==
    [page_content |-> c.content, chunk_id |-> c.chunk_id,
     has_table |-> c.has_table, chunk_strategy |-> c.chunk_strategy]

\* text_splitter.split_text(text) of langchain's RecursiveCharacterTextSplitter:
\* stripped, non-empty pieces of the text.  The piece boundaries are the
\* library's choice; here one piece, or two pieces cut at c.
split_text(t, c) ==
    LET pieces == IF c = 0 THEN <<Strip(t)>>
                  ELSE <<Strip(PySlice(t, 0, c)), Strip(PySlice(t, c, Len(t)))>>
    IN  SelectSeq(pieces, LAMBDA p : p # <<>>)

UniformDocuments(ps) ==
    [i \in 1..Len(ps) |->
        [page_content |-> ps[i], chunk_id |-> i - 1,
         has_table |-> FALSE, chunk_strategy |-> "uniform"]]

(***************************************************************************)
(* Inputs of the chunker specification.                                    *)
(***************************************************************************)
SeqsUpTo(S, n) == UNION {[1..k -> S] : k \in 0..n}

\* Texts longer than MAX_CHARS: plain; plain with a trailing table marker; and
\* an abstract word whose delimiter lies beyond the classified prefix
LongTexts ==
    UNION {{[i \in 1..n |-> "x"],
            [i \in 1..n |-> IF i = n THEN "T" ELSE "x"],
            [i \in 1..n |-> IF i = 1 THEN "A" ELSE IF i = n THEN ":" ELSE " "]} :
           n \in (MAX_CHARS + 1)..(MAX_CHARS + MaxExtra)}

Texts == SeqsUpTo(Chars, MaxTextLen) \cup LongTexts

\* The answers the advisory may give to a request about n symbols: an error, a
\* malformed answer, or any list of at most two integers in -1..n+1
OffsetLists(n) ==
    {<<>>} \cup {<<a>> : a \in -1..(n + 1)}
           \cup {<<a, b>> : a \in -1..(n + 1), b \in -1..(n + 1)}
Answers(n) == {ErrorAnswer, MalformedAnswer} \cup {OkAnswer(s) : s \in OffsetLists(n)}

\* One answer per request the text can cause, in request order
RECURSIVE Advisories(_)
Advisories(n) ==
    IF n > MAX_CHARS
    THEN {<<a>> \o rest : a \in Answers(MAX_CHARS), rest \in Advisories(n - MAX_CHARS)}
    ELSE {<<a>> : a \in Answers(n)}

NoRet == [op |-> "none"]

EMBEDDING_DIM == 1024

\* No file at a path
NoFile == [exists |-> FALSE]
\* Nothing was ever saved; saved is the store a completed save wrote, if the
\* two artifacts are those of one save
NoSnapshot == [taken |-> FALSE]
NoDisk == [index |-> NoFile, metadata |-> NoFile, saved |-> NoSnapshot]

\* The writer threads, and a thread outside add_documents
Writers == {1, 2}
IdleWriter == [at |-> "idle", docs |-> <<>>, embs |-> <<>>, start_id |-> 0]
NoWriter == 0

\* No call is in progress
NoSteps ==
    /\ stack = <<>>
    /\ chunk_i = 0
    /\ writers = [w \in Writers |-> IdleWriter]
    /\ lock = NoWriter
    /\ use_lock = FALSE

StoreIdle ==
    /\ index = <<>>
    /\ documents = <<>>
    /\ doc_ids = <<>>
    /\ dimension = EMBEDDING_DIM
    /\ disk = NoDisk
    /\ ret = NoRet
    /\ NoSteps

InitChunk ==
    /\ text \in Texts
    /\ use_gpt_chunking \in BOOLEAN
    /\ advisory \in IF use_gpt_chunking THEN Advisories(Len(text)) ELSE {<<>>}
    /\ pc = "ready"
    /\ op = "none"
    /\ split_indices = <<>>
    /\ requests = 0
    /\ chunks = <<>>
    /\ all_documents = <<>>
    /\ StoreIdle

\* A direct call of GPTGuidedChunker.chunk_text(text)
ChunkText ==
    /\ pc = "ready"
    /\ use_gpt_chunking
    /\ LET r == chunk_text(text, advisory)
       IN  /\ pc' = IF r.raised THEN "raised" ELSE "returned"
           /\ chunks' = r.chunks
           /\ split_indices' = r.split_indices
           /\ requests' = r.requests
    /\ op' = "chunk_text"
    /\ UNCHANGED <<text, advisory, use_gpt_chunking, all_documents>>
    /\ UNCHANGED <<index, documents, doc_ids, dimension, disk, ret>>
    /\ UNCHANGED step_vars

\* process_documents on a file of one page, GPT-guided chunking
ProcessPageGpt ==
    /\ pc = "ready"
    /\ use_gpt_chunking
    /\ op' = "process_documents"
    /\ IF Strip(text) = <<>>
       THEN /\ pc' = "returned"
            /\ UNCHANGED <<chunks, split_indices, requests, all_documents>>
       ELSE LET r == chunk_text(text, advisory)
            IN  /\ pc' = IF r.raised THEN "raised" ELSE "returned"
                /\ chunks' = r.chunks
                /\ split_indices' = r.split_indices
                /\ requests' = r.requests
                /\ all_documents' =
                      all_documents \o [i \in 1..Len(r.chunks) |-> ChunkDocument(r.chunks[i])]
    /\ UNCHANGED <<text, advisory, use_gpt_chunking>>
    /\ UNCHANGED <<index, documents, doc_ids, dimension, disk, ret>>
    /\ UNCHANGED step_vars

\* process_documents on a file of one page, uniform chunking
ProcessPageUniform ==
    /\ pc = "ready"
    /\ ~use_gpt_chunking
    /\ op' = "process_documents"
    /\ pc' = "returned"
    /\ IF Strip(text) = <<>>
       THEN UNCHANGED all_documents
       ELSE \E c \in 0..(Len(text) - 1) :
               all_documents' = all_documents \o UniformDocuments(split_text(text, c))
    /\ UNCHANGED <<text, advisory, use_gpt_chunking, chunks, split_indices, requests>>
    /\ UNCHANGED <<index, documents, doc_ids, dimension, disk, ret>>
    /\ UNCHANGED step_vars

NextChunk == ChunkText \/ ProcessPageGpt \/ ProcessPageUniform

SpecChunk == InitChunk /\ [][NextChunk]_vars

(***************************************************************************)
(* FaissVectorStore                                                        *)
(*                                                                         *)
(* A vector is a direction in the plane, a multiple ang of 60 degrees, and *)
(* a length mag; the zero vector has mag 0.  Inner products of unit        *)
(* vectors are cosines, kept in hundredths: 100, 50, -50, -100.            *)
(***************************************************************************)
MaxDocs == 3        \* the store holds at most this many entries
MaxBatch == 2       \* add_documents is called with at most this many documents
MaxK == 2           \* k is at most this

TOP_K == 5                      \* config.TOP_K
SIMILARITY_THRESHOLD == 50      \* config.SIMILARITY_THRESHOLD = 0.50
OVERLAP_N == 200                \* n of _content_overlap
DEDUP_THRESHOLD == 95           \* similarity_threshold = 0.95 of _deduplicate_results

Vec(a, m) == [ang |-> a, mag |-> m]
Zero == Vec(0, 0)
Cos100 == <<100, 50, -50, -100, -50, 50>>

\* faiss.normalize_L2: scales to unit length, leaves the zero vector alone
normalize_L2(v) == IF v.mag = 0 THEN v ELSE Vec(v.ang, 1)

\* the inner product IndexFlatIP computes
InnerProduct(u, v) == u.mag * v.mag * Cos100[((u.ang - v.ang) % 6) + 1]

\* An optional argument: None, or a value
None == [given |-> FALSE, val |-> 0]
Some(x) == [given |-> TRUE, val |-> x]

\* `k or config.TOP_K`
KOrDefault(k) == IF ~k.given \/ k.val = 0 THEN TOP_K ELSE k.val

\* `threshold if threshold is not None else config.SIMILARITY_THRESHOLD`
ThresholdOrDefault(t) == IF t.given THEN t.val ELSE SIMILARITY_THRESHOLD

\* The orders in which the n best of the positions ps can be listed, best
\* first; positions of equal score in any order
RECURSIVE BestFirst(_, _, _, _)
BestFirst(idx, qn, ps, n) ==
    IF n = 0 \/ ps = {} THEN {<<>>}
    ELSE LET best == {p \in ps : \A o \in ps :
                         InnerProduct(idx[p + 1], qn) >= InnerProduct(idx[o + 1], qn)}
         IN  UNION {{<<p>> \o rest : rest \in BestFirst(idx, qn, ps \ {p}, n - 1)} :
                    p \in best}

\* index.search answering with the first search_k positions of the index
FaissSearch_FirstStored(idx, qn, search_k) ==
    {[i \in 1..Min(search_k, Len(idx)) |->
         [score |-> InnerProduct(idx[i], qn), idx |-> i - 1]]}

\* index.search(query_np, search_k): the search_k best positions (0-based) with
\* their scores, best first; the order among equal scores is faiss's
FaissSearch(idx, qn, search_k) ==
    {[i \in 1..Len(f) |-> [score |-> InnerProduct(idx[f[i] + 1], qn), idx |-> f[i]]] :
        f \in BestFirst(idx, qn, 0..(Len(idx) - 1), search_k)}

\* The loop of search without the range test, the lookup wrapping around
FilterHits_WrapsAround(docs, found, threshold, k) ==
    LET ok == SelectSeq(found, LAMBDA h : Len(docs) > 0 /\ h.score >= threshold)
        results == [i \in 1..Len(ok) |->
                       [doc |-> docs[(ok[i].idx % Len(docs)) + 1],
                        score |-> ok[i].score, pos |-> ok[i].idx]]
    IN  SubSeq(results, 1, Min(k, Len(results)))

\* The loop of search over one faiss answer, and results[:k]
FilterHits(docs, found, threshold, k) ==
    LET ok == SelectSeq(found, LAMBDA h :
                  /\ 0 <= h.idx
                  /\ h.idx < Len(docs)
                  /\ h.score >= threshold)
        results == [i \in 1..Len(ok) |->
                       [doc |-> docs[ok[i].idx + 1], score |-> ok[i].score, pos |-> ok[i].idx]]
    IN  SubSeq(results, 1, Min(k, Len(results)))

\* search(query_embedding, k, threshold): the lists it may return
search(idx, docs, query_embedding, kArg, tArg) ==
    LET k == KOrDefault(kArg)
        threshold == ThresholdOrDefault(tArg)
    IN  IF Len(idx) = 0 THEN {<<>>}
        ELSE LET query_np == normalize_L2(query_embedding)
                 search_k == Min(k * 2, Len(idx))
             IN  {FilterHits(docs, found, threshold, k) :
                     found \in FaissSearch(idx, query_np, search_k)}

(***************************************************************************)
(* Retriever                                                               *)
(***************************************************************************)
\* set(text.split()): the set of the maximal runs of non-whitespace symbols
Words(t) ==
    LET solid == {i \in 1..Len(t) : ~IsSpace(t[i])}
        starts == {i \in solid : (i - 1) \notin solid}
        stops == {j \in solid : (j + 1) \notin solid}
        stop(i) == CHOOSE j \in stops : j >= i /\ \A e \in stops : e >= i => j <= e
    IN  {SubSeq(t, i, stop(i)) : i \in starts}

\* _content_overlap without lower()
_content_overlap_NoLower(text1, text2) ==
    LET words1 == Words(Prefix(text1, OVERLAP_N))
        words2 == Words(Prefix(text2, OVERLAP_N))
    IN  IF words1 = {} \/ words2 = {} THEN <<0, 1>>
        ELSE <<Cardinality(words1 \cap words2), Cardinality(words1 \cup words2)>>

\* _content_overlap(text1, text2) as the fraction <<numerator, denominator>>
_content_overlap(text1, text2) ==
    LET words1 == Words(Lower(Prefix(text1, OVERLAP_N)))
        words2 == Words(Lower(Prefix(text2, OVERLAP_N)))
    IN  IF words1 = {} \/ words2 = {} THEN <<0, 1>>
        ELSE <<Cardinality(words1 \cap words2), Cardinality(words1 \cup words2)>>

\* overlap > similarity_threshold
IsDuplicate(content, seen) ==
    LET overlap == _content_overlap(content, seen)
    IN  overlap[1] * 100 > DEDUP_THRESHOLD * overlap[2]

\* the loop of _deduplicate_results from position i on, deduplicated so far
RECURSIVE DedupFrom(_, _, _)
DedupFrom(results, i, deduplicated) ==
    IF i > Len(results) THEN deduplicated
    ELSE IF \E j \in 1..Len(deduplicated) :
               IsDuplicate(results[i].doc.page_content, deduplicated[j].doc.page_content)
         THEN DedupFrom(results, i + 1, deduplicated)
         ELSE DedupFrom(results, i + 1, Append(deduplicated, results[i]))

\* the loop comparing a candidate with the last kept hit only
RECURSIVE DedupFrom_LastKeptOnly(_, _, _)
DedupFrom_LastKeptOnly(results, i, deduplicated) ==
    IF i > Len(results) THEN deduplicated
    ELSE IF /\ deduplicated # <<>>
            /\ IsDuplicate(results[i].doc.page_content,
                           deduplicated[Len(deduplicated)].doc.page_content)
         THEN DedupFrom_LastKeptOnly(results, i + 1, deduplicated)
         ELSE DedupFrom_LastKeptOnly(results, i + 1, Append(deduplicated, results[i]))

_deduplicate_results_LastKeptOnly(results) ==
    IF Len(results) <= 1 THEN results ELSE DedupFrom_LastKeptOnly(results, 1, <<>>)

_deduplicate_results(results) ==
    IF Len(results) <= 1 THEN results ELSE DedupFrom(results, 1, <<>>)

\* retrieve asking search for k results also when deduplicating
retrieve_NoOverfetch(idx, docs, query_embedding, kArg, tArg, deduplicate) ==
    LET k == KOrDefault(kArg)
        threshold == ThresholdOrDefault(tArg)
    IN  {[hits |-> found,
          results |-> IF deduplicate
                      THEN LET d == _deduplicate_results(found)
                           IN  SubSeq(d, 1, Min(k, Len(d)))
                      ELSE found] :
            found \in search(idx, docs, query_embedding, Some(k), Some(threshold))}

\* retrieve truncating the search result to k before deduplicating it
retrieve_TruncatesFirst(idx, docs, query_embedding, kArg, tArg, deduplicate) ==
    LET k == KOrDefault(kArg)
        threshold == ThresholdOrDefault(tArg)
    IN  {[hits |-> found,
          results |-> IF deduplicate
                      THEN _deduplicate_results(SubSeq(found, 1, Min(k, Len(found))))
                      ELSE found] :
            found \in search(idx, docs, query_embedding,
                             Some(IF deduplicate THEN k * 2 ELSE k), Some(threshold))}

\* retrieve after the query was embedded: the search result it got (hits) and
\* the list it returns
retrieve(idx, docs, query_embedding, kArg, tArg, deduplicate) ==
    LET k == KOrDefault(kArg)
        threshold == ThresholdOrDefault(tArg)
    IN  {[hits |-> found,
          results |-> IF deduplicate
                      THEN LET d == _deduplicate_results(found)
                           IN  SubSeq(d, 1, Min(k, Len(d)))
                      ELSE found] :
            found \in search(idx, docs, query_embedding,
                             Some(IF deduplicate THEN k * 2 ELSE k), Some(threshold))}

(***************************************************************************)
(* Inputs of the store specification.                                      *)
(***************************************************************************)
DocA == [page_content |-> <<"x", " ", "a">>, source |-> "s1", page |-> 1]
DocA2 == [page_content |-> <<"A", " ", "x">>, source |-> "s1", page |-> 2]
DocB == [page_content |-> <<"r", " ", "e">>, source |-> "s2", page |-> 1]
DocBlank == [page_content |-> <<" ">>, source |-> "s2", page |-> 2]

\* Chunks with their embeddings, as handed to add_documents
Catalog ==
    {[doc |-> DocA, emb |-> Vec(0, 2)],
     [doc |-> DocA2, emb |-> Vec(1, 1)],
     [doc |-> DocB, emb |-> Vec(1, 3)],
     [doc |-> DocBlank, emb |-> Vec(3, 1)],
     [doc |-> DocB, emb |-> Zero]}

\* What embed_query may return for a query
Queries == {Vec(0, 2), Vec(2, 1)}

KArgs == {None} \cup {Some(k) : k \in 0..MaxK}
ThresholdArgs == {None, Some(0), Some(-100)}

ChunkerIdle ==
    /\ text = <<>>
    /\ advisory = <<>>
    /\ use_gpt_chunking = TRUE
    /\ op = "none"
    /\ split_indices = <<>>
    /\ requests = 0
    /\ chunks = <<>>
    /\ all_documents = <<>>

Init ==
    /\ pc = "idle"
    /\ StoreIdle
    /\ ChunkerIdle

\* add_documents testing the lengths only after index.add
AddDocuments_CheckAfterAdd(docs, embs) ==
    /\ pc = "idle"
    /\ Len(documents) + Len(docs) <= MaxDocs
    /\ Len(docs) # Len(embs)
    /\ index' = index \o [i \in 1..Len(embs) |-> normalize_L2(embs[i])]
    /\ UNCHANGED <<documents, doc_ids>>
    /\ ret' = [op |-> "add_documents", n_docs |-> Len(docs),
               n_embs |-> Len(embs), err |-> "ValueError"]
    /\ pc' = "raised"
    /\ UNCHANGED chunk_vars
    /\ UNCHANGED step_vars
    /\ UNCHANGED persist_vars

\* add_documents putting the new entries in front of the stored ones
AddDocuments_Prepends(docs, embs) ==
    /\ pc = "idle"
    /\ Len(documents) + Len(docs) <= MaxDocs
    /\ Len(docs) = Len(embs)
    /\ Len(embs) > 0
    /\ index' = [i \in 1..Len(embs) |-> normalize_L2(embs[i])] \o index
    /\ documents' = docs \o documents
    /\ doc_ids' = doc_ids \o [i \in 1..Len(docs) |-> Len(documents) + i - 1]
    /\ ret' = [op |-> "add_documents", n_docs |-> Len(docs),
               n_embs |-> Len(embs), err |-> "none",
               docs |-> docs, embs |-> embs]
    /\ pc' = "returned"
    /\ UNCHANGED chunk_vars
    /\ UNCHANGED step_vars
    /\ UNCHANGED persist_vars

\* add_documents(documents, embeddings)
AddDocuments(docs, embs) ==
    /\ pc = "idle"
    /\ Len(documents) + Len(docs) <= MaxDocs
    /\ IF Len(docs) # Len(embs)
       THEN /\ ret' = [op |-> "add_documents", n_docs |-> Len(docs),
                       n_embs |-> Len(embs), err |-> "ValueError"]
            /\ pc' = "raised"
            /\ UNCHANGED store_vars
       ELSE IF Len(embs) = 0
       THEN \* normalize_L2 of an array without a second axis
            /\ ret' = [op |-> "add_documents", n_docs |-> Len(docs),
                       n_embs |-> Len(embs), err |-> "IndexError"]
            /\ pc' = "raised"
            /\ UNCHANGED store_vars
       ELSE LET embeddings_np == [i \in 1..Len(embs) |-> normalize_L2(embs[i])]
                start_id == Len(documents)
            IN  /\ index' = index \o embeddings_np
                /\ documents' = documents \o docs
                /\ doc_ids' = doc_ids \o [i \in 1..Len(docs) |-> start_id + i - 1]
                /\ ret' = [op |-> "add_documents", n_docs |-> Len(docs),
                           n_embs |-> Len(embs), err |-> "none",
                           docs |-> docs, embs |-> embs]
                /\ pc' = "returned"
    /\ UNCHANGED chunk_vars
    /\ UNCHANGED step_vars
    /\ UNCHANGED persist_vars

\* search(query_embedding, k, threshold)
Search(q, k, t) ==
    /\ pc = "idle"
    /\ \E r \in search(index, documents, q, k, t) :
          ret' = [op |-> "search", q |-> q, k |-> k, t |-> t, err |-> "none",
                  results |-> r]
    /\ pc' = "returned"
    /\ UNCHANGED store_vars
    /\ UNCHANGED chunk_vars
    /\ UNCHANGED step_vars
    /\ UNCHANGED persist_vars

\* retrieve(query, k, threshold, deduplicate), embed_query answering q
Retrieve(q, k, t, deduplicate) ==
    /\ pc = "idle"
    /\ \E r \in retrieve(index, documents, q, k, t, deduplicate) :
          ret' = [op |-> "retrieve", q |-> q, k |-> k, t |-> t,
                  deduplicate |-> deduplicate, embedded |-> TRUE, err |-> "none",
                  hits |-> r.hits, results |-> r.results]
    /\ pc' = "returned"
    /\ UNCHANGED store_vars
    /\ UNCHANGED chunk_vars
    /\ UNCHANGED step_vars
    /\ UNCHANGED persist_vars

\* retrieve catching the failure of embed_query and returning no hits
RetrieveEmbedFails_ReturnsEmpty(k, t, deduplicate) ==
    /\ pc = "idle"
    /\ ret' = [op |-> "retrieve", q |-> Zero, k |-> k, t |-> t,
               deduplicate |-> deduplicate, embedded |-> FALSE,
               err |-> "none", hits |-> <<>>, results |-> <<>>]
    /\ pc' = "returned"
    /\ UNCHANGED store_vars
    /\ UNCHANGED chunk_vars
    /\ UNCHANGED step_vars
    /\ UNCHANGED persist_vars

\* retrieve(query, k, threshold, deduplicate), embed_query raising
RetrieveEmbedFails(k, t, deduplicate) ==
    /\ pc = "idle"
    /\ ret' = [op |-> "retrieve", q |-> Zero, k |-> k, t |-> t,
               deduplicate |-> deduplicate, embedded |-> FALSE,
               err |-> "EmbeddingError", hits |-> <<>>, results |-> <<>>]
    /\ pc' = "raised"
    /\ UNCHANGED store_vars
    /\ UNCHANGED chunk_vars
    /\ UNCHANGED step_vars
    /\ UNCHANGED persist_vars

\* the caller takes the result (or the exception) and goes on
Return ==
    /\ pc \in {"returned", "raised"}
    /\ op = "none"
    /\ pc' = "idle"
    /\ ret' = NoRet
    /\ UNCHANGED store_vars
    /\ UNCHANGED chunk_vars
    /\ UNCHANGED step_vars
    /\ UNCHANGED persist_vars

\* the lists handed to add_documents: the documents and the embeddings of a
\* batch of chunks, either list possibly cut short
Batches == SeqsUpTo(Catalog, MaxBatch)

\* add_documents on the documents and embeddings of a batch
AddBatch ==
    /\ pc = "idle"
    /\ \E b \in Batches, nd \in 0..MaxBatch, ne \in 0..MaxBatch :
          /\ nd <= Len(b)
          /\ ne <= Len(b)
          /\ (nd = Len(b) \/ ne = Len(b))
          /\ AddDocuments([i \in 1..nd |-> b[i].doc], [i \in 1..ne |-> b[i].emb])

SearchAny ==
    /\ pc = "idle"
    /\ \E q \in Queries, k \in KArgs, t \in ThresholdArgs : Search(q, k, t)

RetrieveAny ==
    /\ pc = "idle"
    /\ \E q \in Queries, k \in KArgs, t \in ThresholdArgs, d \in BOOLEAN :
          \/ Retrieve(q, k, t, d)
          \/ RetrieveEmbedFails(k, t, d)

Next == AddBatch \/ SearchAny \/ RetrieveAny \/ Return

Spec == Init /\ [][Next]_vars

(***************************************************************************)
(* Persistence and maintenance of the store: save, load, delete_by_source. *)
(* The disk holds the two artifacts of one path.                           *)
(***************************************************************************)
MaxStored == 2      \* the persisted store holds at most this many entries

\* The dimensions a store is constructed with: the configured one and another
Dimensions == {EMBEDDING_DIM, EMBEDDING_DIM \div 2}

\* The components of the stored vectors, one vector after the other
RECURSIVE Codes(_)
Codes(idx) ==
    IF idx = <<>> THEN <<>>
    ELSE <<idx[1].ang, idx[1].mag>> \o Codes(Tail(idx))

\* faiss.write_index(index, file): dimension, count and the flat vector data
write_index(idx, d) ==
    [exists |-> TRUE, d |-> d, ntotal |-> Len(idx), codes |-> Codes(idx)]

\* faiss.read_index(file): ntotal vectors cut out of the flat vector data
read_index(f) ==
    [i \in 1..f.ntotal |-> Vec(f.codes[2 * i - 1], f.codes[2 * i])]

\* pickle.dump of the metadata dictionary of save
pickle_dump(docs, ids, dim) ==
    [exists |-> TRUE, documents |-> docs, doc_ids |-> ids, dimension |-> dim]

Snapshot == [taken |-> TRUE, index |-> index, documents |-> documents,
             doc_ids |-> doc_ids, dimension |-> dimension]

\* save(path)
Save ==
    /\ pc = "idle"
    /\ disk' = [index |-> write_index(index, dimension),
                metadata |-> pickle_dump(documents, doc_ids, dimension),
                saved |-> Snapshot]
    /\ ret' = [op |-> "save", err |-> "none"]
    /\ pc' = "returned"
    /\ UNCHANGED <<index, documents, doc_ids, dimension>>
    /\ UNCHANGED chunk_vars
    /\ UNCHANGED step_vars

\* save(path) when path.metadata cannot be opened for writing: write_index
\* has replaced path.index, open() raises and path.metadata stays as it was
SaveInterrupted ==
    /\ pc = "idle"
    /\ disk' = [disk EXCEPT !.index = write_index(index, dimension),
                            !.saved = NoSnapshot]
    /\ ret' = [op |-> "save", err |-> "OSError"]
    /\ pc' = "raised"
    /\ UNCHANGED <<index, documents, doc_ids, dimension>>
    /\ UNCHANGED chunk_vars
    /\ UNCHANGED step_vars

\* One of the two artifacts is removed from the disk
RemoveArtifact(which) ==
    /\ pc = "idle"
    /\ disk[which].exists
    /\ disk' = [disk EXCEPT ![which] = NoFile, !.saved = NoSnapshot]
    /\ ret' = [op |-> "remove", err |-> "none"]
    /\ pc' = "returned"
    /\ UNCHANGED <<index, documents, doc_ids, dimension>>
    /\ UNCHANGED chunk_vars
    /\ UNCHANGED step_vars

\* load forgetting to install the index it read
Load_KeepsFreshIndex ==
    /\ pc = "idle"
    /\ disk.index.exists
    /\ disk.metadata.exists
    /\ dimension' = disk.metadata.dimension
    /\ index' = <<>>
    /\ documents' = disk.metadata.documents
    /\ doc_ids' = disk.metadata.doc_ids
    /\ ret' = [op |-> "load", err |-> "none"]
    /\ pc' = "returned"
    /\ UNCHANGED disk
    /\ UNCHANGED chunk_vars
    /\ UNCHANGED step_vars

\* FaissVectorStore.load(path): the program goes on with the store it returns
Load ==
    /\ pc = "idle"
    /\ IF ~disk.index.exists \/ ~disk.metadata.exists
       THEN /\ ret' = [op |-> "load", err |-> "FileNotFoundError"]
            /\ pc' = "raised"
            /\ UNCHANGED <<index, documents, doc_ids, dimension>>
       ELSE /\ dimension' = disk.metadata.dimension
            /\ index' = read_index(disk.index)
            /\ documents' = disk.metadata.documents
            /\ doc_ids' = disk.metadata.doc_ids
            /\ ret' = [op |-> "load", err |-> "none"]
            /\ pc' = "returned"
    /\ UNCHANGED disk
    /\ UNCHANGED chunk_vars
    /\ UNCHANGED step_vars

\* delete_by_source removing the matching documents and leaving the index
DeleteBySource_DropsDocuments(source) ==
    /\ pc = "idle"
    /\ LET keep_docs == SelectSeq(documents, LAMBDA doc : doc.source # source)
           deleted_count == Len(documents) - Len(keep_docs)
       IN  /\ ret' = [op |-> "delete_by_source", source |-> source,
                      n |-> deleted_count, before |-> documents, err |-> "none"]
           /\ documents' = keep_docs
    /\ pc' = "returned"
    /\ UNCHANGED <<index, doc_ids>>
    /\ UNCHANGED chunk_vars
    /\ UNCHANGED step_vars
    /\ UNCHANGED persist_vars

\* delete_by_source(source)
DeleteBySource(source) ==
    /\ pc = "idle"
    /\ LET keep_docs == SelectSeq(documents, LAMBDA doc : doc.source # source)
           deleted_count == Len(documents) - Len(keep_docs)
       IN  ret' = [op |-> "delete_by_source", source |-> source,
                   n |-> deleted_count, before |-> documents, err |-> "none"]
    /\ pc' = "returned"
    /\ UNCHANGED store_vars
    /\ UNCHANGED chunk_vars
    /\ UNCHANGED step_vars
    /\ UNCHANGED persist_vars

\* The chunks the persisted store is built from
StoredCatalog ==
    {[doc |-> DocA, emb |-> Vec(0, 2)], [doc |-> DocB, emb |-> Zero]}
Sources == {"s1", "s2", "s3"}

AddStored ==
    /\ pc = "idle"
    /\ \E b \in SeqsUpTo(StoredCatalog, MaxStored) :
          /\ Len(b) >= 1
          /\ Len(documents) + Len(b) <= MaxStored
          /\ Len(index) + Len(b) <= MaxStored
          /\ AddDocuments([i \in 1..Len(b) |-> b[i].doc], [i \in 1..Len(b) |-> b[i].emb])

SaveAny == Save \/ SaveInterrupted
RemoveAny == \E which \in {"index", "metadata"} : RemoveArtifact(which)
DeleteAny == pc = "idle" /\ \E source \in Sources : DeleteBySource(source)

\* FaissVectorStore(dimension): the store the program starts with
InitMaintain ==
    /\ pc = "idle"
    /\ index = <<>>
    /\ documents = <<>>
    /\ doc_ids = <<>>
    /\ dimension \in Dimensions
    /\ disk = NoDisk
    /\ ret = NoRet
    /\ NoSteps
    /\ ChunkerIdle

NextMaintain == AddStored \/ SaveAny \/ RemoveAny \/ Load \/ DeleteAny \/ Return

SpecMaintain == InitMaintain /\ [][NextMaintain]_vars

(***************************************************************************)
(* GPTDocumentProcessor.process_documents over a list of files.  The       *)
(* advisory is unavailable during the run, so that a content page is cut   *)
(* at the fallback offsets.                                                *)
(***************************************************************************)
MaxFiles == 3       \* process_documents is handed at most this many paths

\* An input path: a file that does not exist, a file of another suffix, a PDF
\* that pdfplumber cannot open, and two PDFs with their page texts
MissingFile == [name |-> "m.pdf", kind |-> "missing", pages |-> <<>>]
OtherFile == [name |-> "o.txt", kind |-> "not_pdf", pages |-> <<>>]
BrokenFile == [name |-> "b.pdf", kind |-> "unreadable", pages |-> <<>>]
PaperFile == [name |-> "p.pdf", kind |-> "pdf", pages |-> <<<<"x", "x">>, <<" ">>>>]
TableFile == [name |-> "t.pdf", kind |-> "pdf", pages |-> <<<<"R", "n", "x">>, <<"x", "T">>>>]
Files == {MissingFile, OtherFile, BrokenFile, PaperFile, TableFile}

\* The documents of one page: the loop body of process_documents
PageDocuments(f, p, gpt) ==
    LET t == f.pages[p]
        chunk_docs ==
            IF Strip(t) = <<>> THEN <<>>
            ELSE IF gpt
            THEN LET r == chunk_text(t, [i \in 1..NumRequests(Len(t)) |-> ErrorAnswer])
                 IN  [i \in 1..Len(r.chunks) |-> ChunkDocument(r.chunks[i])]
            ELSE UniformDocuments(split_text(t, 0))
    IN  [i \in 1..Len(chunk_docs) |->
            [filename |-> f.name, page |-> p] @@ chunk_docs[i]]

\* The documents of the pages p.. of one file
RECURSIVE FileDocuments(_, _, _)
FileDocuments(f, p, gpt) ==
    IF p > Len(f.pages) THEN <<>>
    ELSE PageDocuments(f, p, gpt) \o FileDocuments(f, p + 1, gpt)

\* process_documents(file_paths) from path i on, all the documents so far;
\* reported are the positions of the paths a message was printed for
RECURSIVE process_documents(_, _, _, _)
process_documents(file_paths, i, gpt, all) ==
    IF i > Len(file_paths)
    THEN [raised |-> FALSE, all_documents |-> all, reported |-> {}]
    ELSE LET f == file_paths[i]
             rest(acc) == process_documents(file_paths, i + 1, gpt, acc)
         IN  IF f.kind \in {"missing", "not_pdf"}
             THEN LET r == rest(all)
                  IN  [r EXCEPT !.reported = r.reported \cup {i}]
             ELSE IF f.kind = "unreadable"
             THEN \* extract_text_with_metadata prints the error and re-raises
                  [raised |-> TRUE, all_documents |-> all, reported |-> {i}]
             ELSE rest(all \o FileDocuments(f, 1, gpt))

\* A call of process_documents(file_paths)
ProcessDocuments(file_paths) ==
    /\ pc = "ready"
    /\ LET r == process_documents(file_paths, 1, use_gpt_chunking, <<>>)
       IN  /\ all_documents' = r.all_documents
           /\ pc' = IF r.raised THEN "raised" ELSE "returned"
           /\ ret' = [op |-> "process_documents", file_paths |-> file_paths,
                      err |-> IF r.raised THEN "Exception" ELSE "none",
                      reported |-> r.reported,
                      returned |-> IF r.raised THEN <<>> ELSE r.all_documents]
    /\ op' = "process_documents"
    /\ UNCHANGED <<text, advisory, use_gpt_chunking, chunks, split_indices, requests>>
    /\ UNCHANGED store_vars
    /\ UNCHANGED persist_vars
    /\ UNCHANGED step_vars

InitFiles ==
    /\ text = <<>>
    /\ advisory = <<>>
    /\ use_gpt_chunking \in BOOLEAN
    /\ pc = "ready"
    /\ op = "none"
    /\ split_indices = <<>>
    /\ requests = 0
    /\ chunks = <<>>
    /\ all_documents = <<>>
    /\ StoreIdle

NextFiles == \E file_paths \in SeqsUpTo(Files, MaxFiles) : ProcessDocuments(file_paths)

SpecFiles == InitFiles /\ [][NextFiles]_vars

(***************************************************************************)
(* EmbeddingService and the ingestion pipeline of setup_pipeline.main.     *)
(* The backend answers each text with a vector or fails on it.             *)
(***************************************************************************)
Fail == [ok |-> FALSE, vec |-> Zero]
Ok(v) == [ok |-> TRUE, vec |-> v]
BackendOutcomes == {Fail, Ok(Vec(0, 2)), Ok(Vec(1, 1))}

\* embed_query(text): the local model or the API client is called, unguarded
embed_query(use_local, outcome) ==
    IF outcome.ok THEN [raised |-> FALSE, embedding |-> outcome.vec]
    ELSE [raised |-> TRUE, embedding |-> Zero]

\* The API loop of embed_documents from text i on
RECURSIVE EmbedEach(_, _)
EmbedEach(outcomes, i) ==
    IF i > Len(outcomes) THEN <<>>
    ELSE LET r == embed_query(FALSE, outcomes[i])
         IN  <<IF r.raised THEN Zero ELSE r.embedding>> \o EmbedEach(outcomes, i + 1)

\* embed_documents(texts): one model.encode call in local mode, one guarded
\* embed_query per text in API mode
embed_documents(use_local, outcomes) ==
    IF use_local
    THEN IF \E i \in 1..Len(outcomes) : ~outcomes[i].ok
         THEN [raised |-> TRUE, embeddings |-> <<>>]
         ELSE [raised |-> FALSE, embeddings |-> [i \in 1..Len(outcomes) |-> outcomes[i].vec]]
    ELSE [raised |-> FALSE, embeddings |-> EmbedEach(outcomes, 1)]

EmbedQuery(use_local, outcome) ==
    /\ pc = "idle"
    /\ LET r == embed_query(use_local, outcome)
       IN  /\ ret' = [op |-> "embed_query", use_local |-> use_local,
                      outcomes |-> <<outcome>>,
                      err |-> IF r.raised THEN "Exception" ELSE "none",
                      embeddings |-> IF r.raised THEN <<>> ELSE <<r.embedding>>]
           /\ pc' = IF r.raised THEN "raised" ELSE "returned"
    /\ UNCHANGED store_vars
    /\ UNCHANGED chunk_vars
    /\ UNCHANGED step_vars
    /\ UNCHANGED persist_vars

EmbedDocuments(use_local, outcomes) ==
    /\ pc = "idle"
    /\ LET r == embed_documents(use_local, outcomes)
       IN  /\ ret' = [op |-> "embed_documents", use_local |-> use_local,
                      outcomes |-> outcomes,
                      err |-> IF r.raised THEN "Exception" ELSE "none",
                      embeddings |-> r.embeddings]
           /\ pc' = IF r.raised THEN "raised" ELSE "returned"
    /\ UNCHANGED store_vars
    /\ UNCHANGED chunk_vars
    /\ UNCHANGED step_vars
    /\ UNCHANGED persist_vars

\* setup_pipeline.main from the embedding step on: the chunks are embedded
\* and added with their embeddings to a new store
SetupPipeline(docs, use_local, outcomes) ==
    /\ pc = "idle"
    /\ Len(docs) = Len(outcomes)
    /\ Len(docs) >= 1
    /\ LET r == embed_documents(use_local, outcomes)
       IN  /\ ret' = [op |-> "setup_pipeline", use_local |-> use_local,
                      outcomes |-> outcomes, docs |-> docs,
                      err |-> IF r.raised THEN "Exception" ELSE "none",
                      embeddings |-> r.embeddings]
           /\ pc' = IF r.raised THEN "raised" ELSE "returned"
           /\ IF r.raised
              THEN UNCHANGED store_vars
              ELSE /\ index' = [i \in 1..Len(r.embeddings) |-> normalize_L2(r.embeddings[i])]
                   /\ documents' = docs
                   /\ doc_ids' = [i \in 1..Len(docs) |-> i - 1]
    /\ UNCHANGED chunk_vars
    /\ UNCHANGED step_vars
    /\ UNCHANGED persist_vars

EmbedQueryAny ==
    pc = "idle" /\ \E u \in BOOLEAN, o \in BackendOutcomes : EmbedQuery(u, o)
EmbedDocumentsAny ==
    pc = "idle" /\ \E u \in BOOLEAN, os \in SeqsUpTo(BackendOutcomes, MaxBatch) :
                      EmbedDocuments(u, os)
SetupPipelineAny ==
    pc = "idle" /\ \E u \in BOOLEAN, os \in SeqsUpTo(BackendOutcomes, MaxBatch),
                      ds \in SeqsUpTo({DocA, DocB}, MaxBatch) : SetupPipeline(ds, u, os)

NextEmbed == EmbedQueryAny \/ EmbedDocumentsAny \/ SetupPipelineAny \/ Return

SpecEmbed == Init /\ [][NextEmbed]_vars

(***************************************************************************)
(* Context formatting and citations: Retriever.format_contexts_for_llm and *)
(* Generator.generate_with_citations on one hit list.  The formatted text  *)
(* is the sequence of its lines; an absent metadata field is "" or 0.      *)
(***************************************************************************)
MaxHits == 3        \* a formatted hit list holds at most this many hits
EXCERPT_LEN == 200

PlainDoc ==
    [page_content |-> <<"x", " ", "x">>, filename |-> "p.pdf", page |-> 1,
     reference |-> "", publication_year |-> 0, section |-> "", has_table |-> FALSE]
TableDoc ==
    [page_content |-> <<"x", "T">>, filename |-> "t.pdf", page |-> 2,
     reference |-> "Smith", publication_year |-> 2020, section |-> "Results",
     has_table |-> TRUE]
ReferencedDoc ==
    [page_content |-> <<"x">>, filename |-> "t.pdf", page |-> 3,
     reference |-> "Smith", publication_year |-> 0, section |-> "", has_table |-> FALSE]
FormatHits ==
    {[doc |-> d, score |-> sc] : d \in {PlainDoc, TableDoc, ReferencedDoc}, sc \in {95, 50}}

Line(tag, val) == [line |-> tag, val |-> val]
NoSource == [reference |-> "", year |-> 0, filename |-> "", page |-> 0]

\* f"{score:.3f}": the score in thousandths
Format3f(score) == score * 10

\* The lines of the block of the hit at position i, numbered n
ContextBlock(hit, n, include_metadata) ==
    LET meta == hit.doc
        source == IF meta.reference # ""
                  THEN [NoSource EXCEPT !.reference = meta.reference,
                                        !.year = meta.publication_year]
                  ELSE [NoSource EXCEPT !.filename = meta.filename, !.page = meta.page]
    IN  <<Line("Blank", 0), Line("Context", n)>>
        \o (IF include_metadata
            THEN <<Line("Source", source)>>
                 \o (IF meta.section # "" THEN <<Line("Section", meta.section)>> ELSE <<>>)
                 \o <<Line("Similarity", Format3f(hit.score))>>
                 \o (IF meta.has_table THEN <<Line("TableNote", 0)>> ELSE <<>>)
            ELSE <<>>)
        \o <<Line("Blank", 0), Line("Content", hit.doc.page_content), Line("Rule", 0)>>

RECURSIVE BlocksFrom(_, _, _, _)
BlocksFrom(results, i, first, include_metadata) ==
    IF i > Len(results) THEN <<>>
    ELSE ContextBlock(results[i], first + i - 1, include_metadata)
         \o BlocksFrom(results, i + 1, first, include_metadata)

\* format_contexts_for_llm numbering the blocks like a bare enumerate(results)
format_contexts_for_llm_FromZero(results, include_metadata) ==
    IF results = <<>> THEN <<Line("NoContexts", 0)>>
    ELSE BlocksFrom(results, 1, 0, include_metadata)

\* format_contexts_for_llm(results, include_metadata)
format_contexts_for_llm(results, include_metadata) ==
    IF results = <<>> THEN <<Line("NoContexts", 0)>>
    ELSE BlocksFrom(results, 1, 1, include_metadata)

\* The citations generate_with_citations adds to the answer
Citations(retrieval_results) ==
    [i \in 1..Len(retrieval_results) |->
        LET doc == retrieval_results[i].doc
        IN  [index |-> i, filename |-> doc.filename, page |-> doc.page,
             section |-> IF doc.section = "" THEN "Unknown" ELSE doc.section,
             similarity |-> retrieval_results[i].score,
             excerpt |-> Strip(Prefix(doc.page_content, EXCERPT_LEN)),
             has_table |-> doc.has_table,
             reference |-> doc.reference, publication_year |-> doc.publication_year]]

\* The query path after retrieval: the hits are formatted for the prompt and
\* cited, both from the same list
FormatAndCite(results) ==
    /\ pc = "idle"
    /\ ret' = [op |-> "format", hits |-> results,
               formatted |-> format_contexts_for_llm(results, TRUE),
               citations |-> Citations(results)]
    /\ pc' = "returned"
    /\ UNCHANGED store_vars
    /\ UNCHANGED chunk_vars
    /\ UNCHANGED step_vars
    /\ UNCHANGED persist_vars

NextFormat == \E results \in SeqsUpTo(FormatHits, MaxHits) : FormatAndCite(results)

SpecFormat == Init /\ [][NextFormat]_vars

(***************************************************************************)
(* The near-duplicate scenario: three chunks of one source whose first 200 *)
(* characters share 48 of 50 words pairwise (Jaccard 0.96), and one chunk  *)
(* of other words, each stored with any of three unit vectors.             *)
(***************************************************************************)
Letters == <<"b", "c", "d", "f", "g", "h", "k", "m">>
Word(i) == <<Letters[((i - 1) \div 8) + 1], Letters[((i - 1) % 8) + 1]>>

\* " ".join(Word(i) for i in ws)
RECURSIVE Sentence(_)
Sentence(ws) ==
    IF Len(ws) = 0 THEN <<>>
    ELSE IF Len(ws) = 1 THEN Word(ws[1])
    ELSE Word(ws[1]) \o <<" ">> \o Sentence(Tail(ws))

NearDuplicate(j) ==
    [page_content |-> Sentence([i \in 1..49 |-> IF i = 49 THEN 48 + j ELSE i]),
     source |-> "s1", page |-> j]
Unrelated == [page_content |-> Sentence([i \in 1..9 |-> 51 + i]), source |-> "s2", page |-> 1]

ScenarioDocs == <<NearDuplicate(1), NearDuplicate(2), NearDuplicate(3), Unrelated>>
StoredVectors == {Vec(0, 1), Vec(1, 1), Vec(3, 1)}

InitScenario ==
    /\ pc = "idle"
    /\ index \in [1..4 -> StoredVectors]
    /\ documents = ScenarioDocs
    /\ doc_ids = <<0, 1, 2, 3>>
    /\ dimension = EMBEDDING_DIM
    /\ disk = NoDisk
    /\ ret = NoRet
    /\ NoSteps
    /\ ChunkerIdle

\* retrieve(query, k=3, threshold=0.0), deduplication enabled
RetrieveScenario == \E q \in Queries : Retrieve(q, Some(3), Some(0), TRUE)

SpecScenario == InitScenario /\ [][RetrieveScenario]_vars

(***************************************************************************)
(* The store under single-threaded sequences of its operations, each run   *)
(* to its end: add_documents (successful or failing), search,              *)
(* delete_by_source, save and load.                                        *)
(***************************************************************************)
\* add_documents with lists of different lengths, or with empty lists
AddFailing ==
    /\ pc = "idle"
    /\ \E b \in SeqsUpTo(StoredCatalog, MaxStored), n \in 0..MaxStored :
          /\ n <= Len(b)
          /\ n < Len(b) \/ Len(b) = 0
          /\ AddDocuments([i \in 1..Len(b) |-> b[i].doc], [i \in 1..n |-> b[i].emb])

SearchStored ==
    /\ pc = "idle"
    /\ \E q \in Queries, t \in ThresholdArgs : Search(q, Some(MaxStored), t)

NextStoreOps ==
    AddStored \/ AddFailing \/ SearchStored \/ DeleteAny \/ Save \/ Load \/ Return

SpecStoreOps == Init /\ [][NextStoreOps]_vars

(***************************************************************************)
(* Over-fetch against deduplication: a store of two chunks stored twice    *)
(* each, near-duplicates of one another, and one unrelated chunk.          *)
(***************************************************************************)
OverfetchDocs == <<DocA, DocA2, DocA, DocA2, DocB>>
OverfetchVectors == {Vec(0, 1), Vec(1, 1)}

InitOverfetch ==
    /\ pc = "idle"
    /\ index \in [1..Len(OverfetchDocs) -> OverfetchVectors]
    /\ documents = OverfetchDocs
    /\ doc_ids = [i \in 1..Len(OverfetchDocs) |-> i - 1]
    /\ dimension = EMBEDDING_DIM
    /\ disk = NoDisk
    /\ ret = NoRet
    /\ NoSteps
    /\ ChunkerIdle

\* retrieve(query, k, threshold), deduplication enabled
RetrieveOverfetch ==
    \E q \in Queries, k \in 1..MaxK, t \in {0, -100} : Retrieve(q, Some(k), Some(t), TRUE)

SpecOverfetch == InitOverfetch /\ [][RetrieveOverfetch]_vars

(***************************************************************************)
(* add_documents statement by statement, called from two threads, with a   *)
(* third thread searching.  The statements that touch the store are the    *)
(* read of len(documents), index.add, documents.extend and doc_ids.extend. *)
(* With use_lock the callers hold a writer lock around add_documents; the  *)
(* searching thread takes no lock.                                         *)
(***************************************************************************)
MaxAdded == 3

\* The batches each thread adds: chunks with their embeddings
WriterBatches(w) ==
    IF w = 1
    THEN {<<[doc |-> DocA, emb |-> Vec(0, 2)]>>,
          <<[doc |-> DocA, emb |-> Vec(0, 2)], [doc |-> DocA2, emb |-> Vec(1, 1)]>>}
    ELSE {<<[doc |-> DocB, emb |-> Vec(3, 1)]>>}

\* Vectors appended by index.add whose call has not reached doc_ids.extend yet
InProgress(w) == IF writers[w].at = "idle" THEN 0 ELSE Len(writers[w].docs)

InitThreads ==
    /\ pc = "idle"
    /\ index = <<>>
    /\ documents = <<>>
    /\ doc_ids = <<>>
    /\ dimension = EMBEDDING_DIM
    /\ disk = NoDisk
    /\ ret = NoRet
    /\ stack = <<>>
    /\ chunk_i = 0
    /\ writers = [w \in Writers |-> IdleWriter]
    /\ lock = NoWriter
    /\ use_lock \in BOOLEAN
    /\ ChunkerIdle

ThreadFrame ==
    /\ UNCHANGED <<pc, stack, chunk_i, use_lock>>
    /\ UNCHANGED chunk_vars
    /\ UNCHANGED persist_vars

\* add_documents entered without taking the writer lock
BeginAdd_NoLock(w, docs, embs) ==
    /\ writers[w].at = "idle"
    /\ Len(docs) = Len(embs)
    /\ writers' = [writers EXCEPT ![w] =
                      [at |-> "entered", docs |-> docs,
                       embs |-> [i \in 1..Len(embs) |-> normalize_L2(embs[i])],
                       start_id |-> 0]]
    /\ UNCHANGED <<index, documents, doc_ids, ret, lock>>
    /\ ThreadFrame

\* Thread w enters add_documents(documents, embeddings): the length test, the
\* conversion and normalize_L2 work on the call's own data
BeginAdd(w, docs, embs) ==
    /\ writers[w].at = "idle"
    /\ Len(docs) = Len(embs)
    /\ use_lock => lock = NoWriter
    /\ lock' = IF use_lock THEN w ELSE lock
    /\ writers' = [writers EXCEPT ![w] =
                      [at |-> "entered", docs |-> docs,
                       embs |-> [i \in 1..Len(embs) |-> normalize_L2(embs[i])],
                       start_id |-> 0]]
    /\ UNCHANGED <<index, documents, doc_ids, ret>>
    /\ ThreadFrame

\* start_id = len(self.documents)
ReadStartId(w) ==
    /\ writers[w].at = "entered"
    /\ writers' = [writers EXCEPT ![w].at = "read", ![w].start_id = Len(documents)]
    /\ UNCHANGED <<index, documents, doc_ids, ret, lock>>
    /\ ThreadFrame

\* self.index.add(embeddings_np)
IndexAdd(w) ==
    /\ writers[w].at = "read"
    /\ index' = index \o writers[w].embs
    /\ writers' = [writers EXCEPT ![w].at = "added"]
    /\ UNCHANGED <<documents, doc_ids, ret, lock>>
    /\ ThreadFrame

\* self.documents.extend(documents)
ExtendDocuments(w) ==
    /\ writers[w].at = "added"
    /\ documents' = documents \o writers[w].docs
    /\ writers' = [writers EXCEPT ![w].at = "extended"]
    /\ UNCHANGED <<index, doc_ids, ret, lock>>
    /\ ThreadFrame

\* self.doc_ids.extend(range(start_id, start_id + len(documents))), and the
\* call returns
ExtendDocIds(w) ==
    /\ writers[w].at = "extended"
    /\ doc_ids' = doc_ids \o [i \in 1..Len(writers[w].docs) |-> writers[w].start_id + i - 1]
    /\ writers' = [writers EXCEPT ![w] = IdleWriter]
    /\ lock' = IF use_lock THEN NoWriter ELSE lock
    /\ UNCHANGED <<index, documents, ret>>
    /\ ThreadFrame

\* search(query_embedding, k, threshold) by the reading thread, between two
\* statements of the writers; seen: the sizes of the store it met
SearchBetween(q, k, t) ==
    /\ \E r \in search(index, documents, q, k, t) :
          ret' = [op |-> "search", q |-> q, k |-> k, t |-> t, err |-> "none",
                  results |-> r,
                  seen |-> [vectors |-> Len(index), documents |-> Len(documents)]]
    /\ UNCHANGED <<index, documents, doc_ids, writers, lock>>
    /\ ThreadFrame

BeginAddAny ==
    \E w \in Writers : \E b \in WriterBatches(w) :
        /\ Len(index) + Len(b) <= MaxAdded
        /\ Len(documents) + InProgress(1) + InProgress(2) + Len(b) <= MaxAdded
        /\ BeginAdd(w, [i \in 1..Len(b) |-> b[i].doc], [i \in 1..Len(b) |-> b[i].emb])

WriterStep ==
    \E w \in Writers :
        ReadStartId(w) \/ IndexAdd(w) \/ ExtendDocuments(w) \/ ExtendDocIds(w)

SearchBetweenAny ==
    \E q \in Queries : SearchBetween(q, Some(2), Some(0))

NextThreads == BeginAddAny \/ WriterStep \/ SearchBetweenAny

SpecThreads == InitThreads /\ [][NextThreads]_vars

(***************************************************************************)
(* chunk_text statement by statement: the recursion of                     *)
(* _ask_gpt_for_splits as a stack of pending segments, one advisory        *)
(* request per step, then the chunk loop, one offset per step.             *)
(***************************************************************************)
MaxSegments == 3

\* Texts of up to MaxSegments segments with a blank at every third symbol,
\* plain texts of one segment, and the short texts of the single-span and
\* skip rules
SplitTexts ==
    {[i \in 1..n |-> IF i % 3 = 0 THEN " " ELSE "x"] : n \in 0..(MaxSegments * MAX_CHARS)}
    \cup {[i \in 1..n |-> "x"] : n \in 0..MAX_CHARS}
    \cup {<<"A", ":">>, <<"R", "n">>, <<"x", "T">>}

\* Answers to a request about n symbols
SplitAnswers(n) ==
    {ErrorAnswer, MalformedAnswer, OkAnswer(<<>>),
     OkAnswer(<<0, n - 1>>), OkAnswer(<<n + 1, -1>>)}

RECURSIVE SplitAdvisories(_)
SplitAdvisories(n) ==
    IF n > MAX_CHARS
    THEN {<<a>> \o rest : a \in SplitAnswers(MAX_CHARS), rest \in SplitAdvisories(n - MAX_CHARS)}
    ELSE {<<a>> : a \in SplitAnswers(n)}

Segment(t, base) == [seg |-> t, base |-> base]

InitSplit ==
    /\ text \in SplitTexts
    /\ use_gpt_chunking = TRUE
    /\ advisory \in SplitAdvisories(Len(text))
    /\ pc = "ready"
    /\ op = "none"
    /\ split_indices = <<>>
    /\ requests = 0
    /\ chunks = <<>>
    /\ all_documents = <<>>
    /\ StoreIdle

\* chunk_text up to the call of _ask_gpt_for_splits: Rules 1 to 3 return at once
CallChunkText ==
    /\ pc = "ready"
    /\ op' = "chunk_text"
    /\ IF _classify_section(text) = "content" /\ ~_has_table_markers(text)
       THEN /\ pc' = "splitting"
            /\ stack' = <<Segment(text, 0)>>
            /\ UNCHANGED chunks
       ELSE /\ pc' = "returned"
            /\ chunks' = chunk_text(text, advisory).chunks
            /\ UNCHANGED stack
    /\ UNCHANGED <<text, advisory, use_gpt_chunking, split_indices, requests, all_documents>>
    /\ UNCHANGED <<index, documents, doc_ids, dimension, disk, ret>>
    /\ UNCHANGED <<chunk_i, writers, lock, use_lock>>

\* _ask_gpt_for_splits on a segment longer than MAX_CHARS: the two recursive
\* calls, on text[:MAX_CHARS] and on text[MAX_CHARS:]
SplitSegment_KeepsWhole ==
    /\ pc = "splitting"
    /\ stack # <<>>
    /\ Len(Head(stack).seg) > MAX_CHARS
    /\ LET top == Head(stack)
       IN  stack' = <<Segment(SubSeq(top.seg, 1, MAX_CHARS), top.base),
                      Segment(top.seg, top.base + MAX_CHARS)>>
                    \o Tail(stack)
    /\ UNCHANGED <<text, advisory, use_gpt_chunking, pc, op, split_indices, requests,
                   chunks, all_documents>>
    /\ UNCHANGED <<index, documents, doc_ids, dimension, disk, ret>>
    /\ UNCHANGED <<chunk_i, writers, lock, use_lock>>

SplitSegment ==
    /\ pc = "splitting"
    /\ stack # <<>>
    /\ Len(Head(stack).seg) > MAX_CHARS
    /\ LET top == Head(stack)
       IN  stack' = <<Segment(SubSeq(top.seg, 1, MAX_CHARS), top.base),
                      Segment(SubSeq(top.seg, MAX_CHARS + 1, Len(top.seg)),
                              top.base + MAX_CHARS)>>
                    \o Tail(stack)
    /\ UNCHANGED <<text, advisory, use_gpt_chunking, pc, op, split_indices, requests,
                   chunks, all_documents>>
    /\ UNCHANGED <<index, documents, doc_ids, dimension, disk, ret>>
    /\ UNCHANGED <<chunk_i, writers, lock, use_lock>>

\* _ask_gpt_for_splits on a segment of at most MAX_CHARS: one request; the
\* answer's offsets, or the fallback offsets after an error, moved by the
\* segment's position in the text
RequestSplits ==
    /\ pc = "splitting"
    /\ stack # <<>>
    /\ Len(Head(stack).seg) <= MAX_CHARS
    /\ LET top == Head(stack)
           answer == advisory[requests + 1]
           offsets == IF answer.kind = "error" THEN FallbackOffsets(Len(top.seg))
                      ELSE answer.split_indices
       IN  /\ requests' = requests + 1
           /\ IF answer.kind = "malformed"
              THEN /\ pc' = "raised"
                   /\ UNCHANGED split_indices
              ELSE /\ pc' = pc
                   /\ split_indices' =
                         split_indices \o [j \in 1..Len(offsets) |-> offsets[j] + top.base]
    /\ stack' = Tail(stack)
    /\ UNCHANGED <<text, advisory, use_gpt_chunking, op, chunks, all_documents>>
    /\ UNCHANGED <<index, documents, doc_ids, dimension, disk, ret>>
    /\ UNCHANGED <<chunk_i, writers, lock, use_lock>>

\* _ask_gpt_for_splits has returned to chunk_text: the chunk loop begins
BeginChunkLoop ==
    /\ pc = "splitting"
    /\ stack = <<>>
    /\ pc' = "chunking"
    /\ chunk_i' = 1
    /\ UNCHANGED chunk_vars
    /\ UNCHANGED <<index, documents, doc_ids, dimension, disk, ret>>
    /\ UNCHANGED <<stack, writers, lock, use_lock>>

\* One iteration of the chunk loop
ChunkStep ==
    /\ pc = "chunking"
    /\ chunk_i <= Len(split_indices)
    /\ LET start_idx == split_indices[chunk_i]
           end_idx == IF chunk_i + 1 <= Len(split_indices)
                      THEN split_indices[chunk_i + 1] ELSE Len(text)
           chunk_content == Strip(PySlice(text, start_idx, end_idx))
       IN  chunks' = IF chunk_content = <<>> THEN chunks
                     ELSE Append(chunks,
                                 [content |-> chunk_content,
                                  section_type |-> "none",
                                  has_table |-> FALSE,
                                  chunk_id |-> chunk_i - 1,
                                  total_chunks |-> Len(split_indices),
                                  chunk_strategy |-> "gpt_guided"])
    /\ chunk_i' = chunk_i + 1
    /\ UNCHANGED <<text, advisory, use_gpt_chunking, pc, op, split_indices, requests,
                   all_documents>>
    /\ UNCHANGED <<index, documents, doc_ids, dimension, disk, ret>>
    /\ UNCHANGED <<stack, writers, lock, use_lock>>

\* The loop is exhausted: chunk_text returns chunks
ReturnChunks ==
    /\ pc = "chunking"
    /\ chunk_i > Len(split_indices)
    /\ pc' = "returned"
    /\ UNCHANGED chunk_vars
    /\ UNCHANGED <<index, documents, doc_ids, dimension, disk, ret>>
    /\ UNCHANGED step_vars

NextSplit ==
    CallChunkText \/ SplitSegment \/ RequestSplits \/ BeginChunkLoop \/ ChunkStep
        \/ ReturnChunks

\* The interpreter runs the one thread of the call until it returns or raises
SpecSplit == InitSplit /\ [][NextSplit]_vars /\ WF_vars(NextSplit)

(***************************************************************************)
(* Properties of the chunker.                                              *)
(***************************************************************************)
Called == pc \in {"returned", "raised"}

\* The text starts (after leading whitespace, within the classified prefix,
\* in any case) with an abstract word followed by optional whitespace and one
\* of ":", "|", newline
AbstractHeader(t) ==
    LET s == Strip(t)
    IN  /\ Len(s) >= 2
        /\ s[1] \in {"A", "a"}
        /\ \E j \in 2..Min(Len(s), PREFIX_LEN) :
              /\ s[j] \in {":", "|", "n"}
              /\ \A i \in 2..(j - 1) : s[i] \in {" ", "n"}

\* The text starts with a references / bibliography word, or with an appendix
\* word followed by optional whitespace and ":" or a digit
SkippedHeader(t) ==
    LET s == Strip(t)
    IN  /\ Len(s) >= 1
        /\ \/ s[1] \in {"R", "r"}
           \/ /\ s[1] \in {"E", "e"}
              /\ \E j \in 2..Min(Len(s), PREFIX_LEN) :
                    /\ s[j] \in {":", "1"}
                    /\ \A i \in 2..(j - 1) : s[i] \in {" ", "n"}

TableMarker(t) == "T" \in {t[i] : i \in 1..Len(t)}

\* C1: every chunk chunk_text returns, and every Document process_documents
\* returns, has non-empty content, whatever the text and the advisory's answers.
C1_NonEmptyContent ==
    /\ \A i \in 1..Len(chunks) : chunks[i].content # <<>>
    /\ \A i \in 1..Len(all_documents) : all_documents[i].page_content # <<>>

\* C1 witness: process_documents returned documents from a content-rule call in
\* which the advisory's offsets produced an empty span that was dropped.
C1_Witness ==
    /\ op = "process_documents"
    /\ pc = "returned"
    /\ use_gpt_chunking
    /\ Len(all_documents) >= 1
    /\ Len(all_documents) < Len(split_indices)

\* C2: a page with a skipped header (references, bibliography, appendix)
\* contributes no chunk: chunk_text returns none for it and process_documents
\* stores none, in GPT-guided and in uniform mode.
C2_SkippedNeverStored ==
    (Called /\ SkippedHeader(text)) => (chunks = <<>> /\ all_documents = <<>>)

\* C3: for a text that starts with an abstract header, chunk_text returns
\* exactly one chunk, its content is the input text unmodified, and the
\* advisory is not consulted.
C3_AbstractSingleChunk ==
    (Called /\ op = "chunk_text" /\ AbstractHeader(text)) =>
        /\ pc = "returned"
        /\ Len(chunks) = 1
        /\ chunks[1].content = text
        /\ requests = 0

\* C3 witness: an abstract text that also holds a table marker went through
\* chunk_text and came back as the abstract chunk.
C3_Witness ==
    /\ op = "chunk_text"
    /\ pc = "returned"
    /\ AbstractHeader(text)
    /\ TableMarker(text)
    /\ Len(chunks) = 1
    /\ chunks[1].chunk_strategy = "single_abstract"

\* C4 as stated: for every text that holds a table marker, whatever header it
\* starts with, chunk_text returns exactly one chunk holding the entire text.
C4_TableAlwaysSingleChunk ==
    (Called /\ op = "chunk_text" /\ TableMarker(text)) =>
        /\ pc = "returned"
        /\ Len(chunks) = 1
        /\ chunks[1].content = text

\* C4 amended: for every text that holds a table marker and does not start
\* with a skipped header, whatever its length, chunk_text returns exactly one
\* chunk holding the entire text, without consulting the advisory.
C4_TableSingleChunkUnlessSkipped ==
    (Called /\ op = "chunk_text" /\ TableMarker(text) /\ ~SkippedHeader(text)) =>
        /\ pc = "returned"
        /\ Len(chunks) = 1
        /\ chunks[1].content = text
        /\ requests = 0

\* C4 witness: a table text longer than MAX_CHARS came back as one chunk.
C4_Witness ==
    /\ op = "chunk_text"
    /\ pc = "returned"
    /\ TableMarker(text)
    /\ Len(text) > MAX_CHARS
    /\ Len(chunks) = 1
    /\ chunks[1].chunk_strategy = "single_table"

StrictlyIncreasing(s) == \A i \in 1..(Len(s) - 1) : s[i] < s[i + 1]

\* C5: for a text longer than MAX_CHARS the offsets composed by
\* _ask_gpt_for_splits are strictly increasing and none exceeds len(text),
\* whatever the advisory answered or failed on the segments.
C5_ComposedOffsetsValid ==
    (pc = "returned" /\ op = "chunk_text" /\ requests >= 2) =>
        /\ StrictlyIncreasing(split_indices)
        /\ \A i \in 1..Len(split_indices) : split_indices[i] <= Len(text)

\* A content-rule call of chunk_text returned
ContentCall == pc = "returned" /\ op = "chunk_text" /\ requests >= 1

\* The stripped span of offset i of the call
SpanOf(i) ==
    Strip(PySlice(text, split_indices[i],
                  IF i < Len(split_indices) THEN split_indices[i + 1] ELSE Len(text)))

NonSpace(t) == SelectSeq(t, LAMBDA c : ~IsSpace(c))

\* The non-whitespace symbols of the chunks from chunk i on, in order
RECURSIVE NonSpaceOfChunks(_)
NonSpaceOfChunks(i) ==
    IF i > Len(chunks) THEN <<>>
    ELSE NonSpace(chunks[i].content) \o NonSpaceOfChunks(i + 1)

\* C22: under the content rule the chunks are, in order, the stripped spans
\* text[o[i]:o[i+1]] (the last to the end of the text) that hold more than
\* whitespace; when the offsets start at 0 and increase strictly, every
\* non-whitespace symbol of the text lies in exactly one chunk.
C22_SpansCoverText ==
    ContentCall =>
        LET kept == SelectSeq([i \in 1..Len(split_indices) |-> SpanOf(i)],
                              LAMBDA c : c # <<>>)
        IN  /\ Len(chunks) = Len(kept)
            /\ \A i \in 1..Len(chunks) : chunks[i].content = kept[i]
            /\ (/\ split_indices # <<>>
                /\ split_indices[1] = 0
                /\ StrictlyIncreasing(split_indices)) =>
                  NonSpaceOfChunks(1) = NonSpace(text)

\* C22 witness: the advisory's offsets 0 < b cut a text that holds whitespace
\* into two chunks.
C22_Witness ==
    /\ ContentCall
    /\ Len(split_indices) = 2
    /\ split_indices[1] = 0
    /\ StrictlyIncreasing(split_indices)
    /\ Len(chunks) = 2
    /\ NonSpace(text) # text

\* C23: the chunk_id values of the list a content-rule call returns are
\* 0, 1, ..., n-1 and every total_chunks is n, the length of the list, also
\* when empty spans were dropped.
C23_IdsCountEmittedChunks ==
    ContentCall =>
        \A i \in 1..Len(chunks) :
            /\ chunks[i].chunk_id = i - 1
            /\ chunks[i].total_chunks = Len(chunks)

\* C24: every chunk records the strategy that produced it; chunks cut at the
\* fixed-stride offsets after an advisory error are not tagged advisory-guided.
C24_FallbackNotTaggedGuided ==
    (/\ ContentCall
     /\ \A j \in 1..requests : advisory[j].kind = "error") =>
        \A i \in 1..Len(chunks) : chunks[i].chunk_strategy # "gpt_guided"

\* The offsets a request about a segment contributed, relative to the segment
NewOffsets ==
    [j \in 1..(Len(split_indices') - Len(split_indices)) |->
        split_indices'[Len(split_indices) + j] - Head(stack).base]

\* The statement-level call ends as the one-step chunk_text does
SplitAgreesWithChunkText ==
    (op = "chunk_text" /\ pc = "returned") =>
        LET r == chunk_text(text, advisory)
        IN  /\ ~r.raised
            /\ chunks = r.chunks
            /\ split_indices = r.split_indices
            /\ requests = r.requests

\* C21: chunk_text terminates (returns or raises) for every text under every
\* advisory behaviour; every recursive call of _ask_gpt_for_splits is on a
\* strictly shorter text; and when a request errors the segment's offsets are
\* exactly 0, STRIDE, 2*STRIDE, ... below the segment's length.
C21_ChunkTextTerminates ==
    /\ <>(pc \in {"returned", "raised"})
    /\ [][(pc = "splitting" /\ stack # <<>> /\ Len(stack') > Len(stack)) =>
            /\ Len(stack') = Len(stack) + 1
            /\ Len(stack'[1].seg) < Len(Head(stack).seg)
            /\ Len(stack'[2].seg) < Len(Head(stack).seg)
            /\ stack'[1].seg \o stack'[2].seg = Head(stack).seg]_vars
    /\ [][(requests' = requests + 1 /\ advisory[requests'].kind = "error") =>
            /\ {NewOffsets[j] : j \in DOMAIN NewOffsets} =
                  {m \in 0..(Len(Head(stack).seg) - 1) : m % STRIDE = 0}
            /\ StrictlyIncreasing(NewOffsets)]_vars

\* C21 witness: a text of three segments whose second request errored has been
\* chunked to the end.
C21_Witness ==
    /\ pc = "returned"
    /\ op = "chunk_text"
    /\ requests = 3
    /\ advisory[2].kind = "error"
    /\ Len(chunks) >= 2

(***************************************************************************)
(* Properties of the vector store and the retriever.                       *)
(***************************************************************************)
\* C6: add_documents called with lists of different lengths fails with an
\* error and leaves the vectors of the index, documents and doc_ids as they were.
C6_MismatchFailsUnchanged ==
    [][(ret'.op = "add_documents" /\ ret'.n_docs # ret'.n_embs) =>
          /\ pc' = "raised"
          /\ ret'.err = "ValueError"
          /\ UNCHANGED <<index, documents, doc_ids>>]_vars

\* C6 witness: a mismatched add_documents on a store that holds entries raised.
C6_Witness ==
    /\ ret.op = "add_documents"
    /\ ret.n_docs # ret.n_embs
    /\ ret.n_docs >= 1
    /\ ret.n_embs >= 1
    /\ pc = "raised"
    /\ Len(documents) >= 1

NonIncreasing(results) ==
    \A i \in 1..(Len(results) - 1) : results[i].score >= results[i + 1].score

\* C7: for every index state, query, integer k >= 0 and threshold t,
\* search(q, k, t) returns at most k results, each with score >= t, in
\* non-increasing score order.
C7_SearchBounds ==
    (ret.op = "search" /\ ret.k.given /\ ret.t.given) =>
        /\ Len(ret.results) <= ret.k.val
        /\ \A i \in 1..Len(ret.results) : ret.results[i].score >= ret.t.val
        /\ NonIncreasing(ret.results)

\* The first-200-character word sets of two contents are identical (and hold a word)
SameWordSet(c1, c2) ==
    LET w1 == Words(Lower(Prefix(c1, OVERLAP_N)))
        w2 == Words(Lower(Prefix(c2, OVERLAP_N)))
    IN  w1 = w2 /\ w1 # {}

Returned(h) == \E m \in 1..Len(ret.results) : ret.results[m].pos = h.pos

\* Pairs i < j of hits of the retrieve call whose word sets are identical
TwinHits ==
    {ij \in (1..Len(ret.hits)) \X (1..Len(ret.hits)) :
        /\ ij[1] < ij[2]
        /\ SameWordSet(ret.hits[ij[1]].doc.page_content, ret.hits[ij[2]].doc.page_content)}

\* C8 as stated: of two hits above the threshold with identical word sets,
\* retrieve with deduplicate=true returns the higher-scored one and not the
\* other, and retrieve with deduplicate=false returns both.
C8_OnlyHigherSurvives ==
    (ret.op = "retrieve" /\ ret.embedded) =>
        \A ij \in TwinHits :
            IF ret.deduplicate
            THEN Returned(ret.hits[ij[1]]) /\ ~Returned(ret.hits[ij[2]])
            ELSE Returned(ret.hits[ij[1]]) /\ Returned(ret.hits[ij[2]])

\* C8 amended: of two hits with identical non-empty word sets, retrieve with
\* deduplicate=true never returns the lower-ranked one, and returns the
\* higher-ranked one unless a hit ranked before it overlaps it by more than
\* 0.95 or k hits ranked before it are returned; retrieve with
\* deduplicate=false returns both.
C8_LowerTwinNeverSurvives ==
    (ret.op = "retrieve" /\ ret.embedded) =>
        \A ij \in TwinHits :
            IF ret.deduplicate
            THEN /\ ~Returned(ret.hits[ij[2]])
                 /\ \/ Returned(ret.hits[ij[1]])
                    \/ \E m \in 1..(ij[1] - 1) :
                          IsDuplicate(ret.hits[ij[1]].doc.page_content,
                                      ret.hits[m].doc.page_content)
                    \/ /\ Len(ret.results) = KOrDefault(ret.k)
                       /\ \A m \in 1..Len(ret.results) :
                             \E n \in 1..(ij[1] - 1) : ret.hits[n].pos = ret.results[m].pos
            ELSE Returned(ret.hits[ij[1]]) /\ Returned(ret.hits[ij[2]])

\* C8 witness: a deduplicating retrieve whose hits held two chunks of identical
\* word sets but different text returned the higher-ranked one only.
C8_Witness ==
    /\ ret.op = "retrieve"
    /\ ret.embedded
    /\ ret.deduplicate
    /\ \E ij \in TwinHits :
          /\ ret.hits[ij[1]].doc.page_content # ret.hits[ij[2]].doc.page_content
          /\ Returned(ret.hits[ij[1]])
          /\ ~Returned(ret.hits[ij[2]])

IsNear(d) == d.source = "s1"

\* The scenario's retrieve returned exactly two hits: one of the three
\* near-duplicates and the unrelated chunk
TwoScenarioHits ==
    /\ Len(ret.results) = 2
    /\ \E m \in 1..2 : ret.results[m].doc = Unrelated
    /\ \E m \in 1..2 : IsNear(ret.results[m].doc)

\* C9 as stated: with the three near-duplicates and the unrelated chunk in the
\* index, retrieve with k=3, threshold=0.0 and deduplication returns exactly
\* two hits, one near-duplicate and the unrelated chunk.
C9_ScenarioTwoHits ==
    ret.op = "retrieve" => TwoScenarioHits

\* C9 amended: ... provided each of the four chunks has similarity >= 0.0 to
\* the query.
C9_ScenarioTwoHitsAboveThreshold ==
    (/\ ret.op = "retrieve"
     /\ \A p \in 1..Len(index) : InnerProduct(index[p], normalize_L2(ret.q)) >= 0) =>
        TwoScenarioHits

\* C9 witness: the search handed four hits to the deduplication, the unrelated
\* chunk ranked last, and two hits came back.
C9_Witness ==
    /\ ret.op = "retrieve"
    /\ Len(ret.hits) = 4
    /\ ret.hits[4].doc = Unrelated
    /\ ret.hits[1].score > ret.hits[4].score
    /\ TwoScenarioHits

NoEntryClears(q, t) ==
    \A p \in 1..Len(index) :
        InnerProduct(index[p], normalize_L2(q)) < ThresholdOrDefault(t)

\* C10: search and retrieve return an empty list, without error, when the
\* store is empty or no entry clears the threshold; a failure of the embedding
\* backend during retrieve is raised and is never an empty hit list.
C10_ZeroHitsVersusFailure ==
    /\ (ret.op = "search" /\ NoEntryClears(ret.q, ret.t)) =>
          (pc = "returned" /\ ret.err = "none" /\ ret.results = <<>>)
    /\ (ret.op = "retrieve" /\ ret.embedded /\ NoEntryClears(ret.q, ret.t)) =>
          (pc = "returned" /\ ret.err = "none" /\ ret.results = <<>>)
    /\ (ret.op = "retrieve" /\ ~ret.embedded) =>
          (pc = "raised" /\ ret.err # "none")

\* C10 witness: retrieve on a store that holds entries, none of which clears
\* the threshold, returned the empty list.
C10_Witness ==
    /\ ret.op = "retrieve"
    /\ ret.embedded
    /\ Len(index) >= 2
    /\ NoEntryClears(ret.q, ret.t)
    /\ pc = "returned"
    /\ ret.results = <<>>

\* C18: a successful add_documents of m documents to a store of n entries
\* leaves the document, doc_id and vector at the positions 0..n-1 unchanged
\* and puts the new documents and their vectors at n..n+m-1 in input order.
C18_AddOnlyAppends ==
    [][(ret'.op = "add_documents" /\ ret'.err = "none") =>
          LET n == Len(documents)
              m == ret'.n_docs
          IN  /\ Len(documents') = n + m
              /\ Len(index') = Len(index) + m
              /\ Len(doc_ids') = Len(doc_ids) + m
              /\ \A i \in 1..n : documents'[i] = documents[i]
              /\ \A i \in 1..Len(index) : index'[i] = index[i]
              /\ \A i \in 1..Len(doc_ids) : doc_ids'[i] = doc_ids[i]
              /\ \A i \in 1..m :
                    /\ documents'[n + i] = ret'.docs[i]
                    /\ index'[Len(index) + i] = normalize_L2(ret'.embs[i])
                    /\ doc_ids'[Len(doc_ids) + i] = n + i - 1]_vars

\* C18 witness: two different documents were added to a store that held one.
C18_Witness ==
    /\ ret.op = "add_documents"
    /\ ret.err = "none"
    /\ ret.n_docs = 2
    /\ ret.docs[1] # ret.docs[2]
    /\ Len(documents) = 3
    /\ documents[1] # documents[2]
    /\ doc_ids = <<0, 1, 2>>

\* C20: a chunk stored with a zero vector is never returned by search or
\* retrieve, whatever the query vector and the threshold, 0.0 included.
C20_ZeroVectorNeverReturned ==
    (ret.op \in {"search", "retrieve"} /\ ret.err = "none") =>
        \A i \in 1..Len(ret.results) : index[ret.results[i].pos + 1] # Zero

FirstK(results, k) == SubSeq(results, 1, Min(k, Len(results)))

\* C16: for every index state, query, integer k >= 0, threshold and
\* deduplicate flag, retrieve returns at most k hits, each with score >=
\* threshold, in non-increasing score order; with deduplicate=true they are the
\* first k of the deduplicated search result for 2k, with deduplicate=false
\* the search result for k.
C16_RetrieveBounds ==
    (ret.op = "retrieve" /\ ret.embedded /\ ret.k.given /\ ret.t.given) =>
        /\ Len(ret.results) <= ret.k.val
        /\ \A i \in 1..Len(ret.results) : ret.results[i].score >= ret.t.val
        /\ NonIncreasing(ret.results)
        /\ IF ret.deduplicate
           THEN /\ ret.hits \in search(index, documents, ret.q, Some(2 * ret.k.val), ret.t)
                /\ ret.results = FirstK(_deduplicate_results(ret.hits), ret.k.val)
           ELSE /\ ret.hits \in search(index, documents, ret.q, ret.k, ret.t)
                /\ ret.results = ret.hits

\* The score of the stored vector at position p (0-based) for the query
ScoreAt(p, q) == InnerProduct(index[p + 1], normalize_L2(q))

\* The positions of the whole index whose score clears the threshold
Clearing(q, t) == {p \in 0..(Len(index) - 1) : ScoreAt(p, q) >= t}

\* results is a reference result: the k best of all entries that clear the
\* threshold, best first, entries of equal score in any order
IsReferenceResult(results, q, k, t) ==
    LET got == {results[i].pos : i \in 1..Len(results)}
    IN  /\ Len(results) = Min(k, Cardinality(Clearing(q, t)))
        /\ Cardinality(got) = Len(results)
        /\ got \subseteq Clearing(q, t)
        /\ \A i \in 1..Len(results) :
              /\ results[i].score = ScoreAt(results[i].pos, q)
              /\ results[i].doc = documents[results[i].pos + 1]
        /\ NonIncreasing(results)
        /\ \A p \in Clearing(q, t) \ got :
              \A i \in 1..Len(results) : results[i].score >= ScoreAt(p, q)

\* C25: the result of search(q, k, t), k >= 1 or the default, is the reference
\* result over the whole index: the entries with score >= threshold, by
\* descending score, truncated to k; inspecting only min(2k, total) entries
\* misses no entry of the true top k.
C25_SearchIsReference ==
    (ret.op = "search" /\ ret.k # Some(0)) =>
        IsReferenceResult(ret.results, ret.q,
                          IF ret.k.given THEN ret.k.val ELSE TOP_K,
                          IF ret.t.given THEN ret.t.val ELSE SIMILARITY_THRESHOLD)

\* C25 witness: a search with k = 1 on an index of more than 2k entries, one
\* of them below the threshold, returned the one best entry.
C25_Witness ==
    /\ ret.op = "search"
    /\ ret.k = Some(1)
    /\ ret.t.given
    /\ Len(index) > 2
    /\ Len(ret.results) = 1
    /\ Clearing(ret.q, ret.t.val) # 0..(Len(index) - 1)
    /\ Cardinality(Clearing(ret.q, ret.t.val)) >= 2

\* The position in hits of the hit kept as out[i]
KeptAt(hits, out, i) == CHOOSE m \in 1..Len(hits) : hits[m] = out[i]

\* C26: the output of _deduplicate_results is an order-preserving subsequence
\* of its input that keeps the first hit; no two kept hits overlap by more than
\* 0.95; every discarded hit overlaps by more than 0.95 with a kept hit ranked
\* before it; deduplicating the output changes nothing.
C26_DeduplicateGreedy ==
    (ret.op = "retrieve" /\ ret.embedded) =>
        LET hits == ret.hits
            out == _deduplicate_results(hits)
            kept == {KeptAt(hits, out, i) : i \in 1..Len(out)}
        IN  /\ \A i \in 1..Len(out) : \E m \in 1..Len(hits) : hits[m] = out[i]
            /\ \A i \in 1..(Len(out) - 1) : KeptAt(hits, out, i) < KeptAt(hits, out, i + 1)
            /\ hits # <<>> => (out # <<>> /\ out[1] = hits[1])
            /\ \A i \in 1..Len(out) : \A j \in 1..Len(out) :
                  i # j => ~IsDuplicate(out[i].doc.page_content, out[j].doc.page_content)
            /\ \A m \in (1..Len(hits)) \ kept :
                  \E n \in kept :
                      /\ n < m
                      /\ IsDuplicate(hits[m].doc.page_content, hits[n].doc.page_content)
            /\ _deduplicate_results(out) = out

\* C26 witness: of three hits the last is a near-duplicate of the first and
\* not of the second; two are kept.
C26_Witness ==
    /\ ret.op = "retrieve"
    /\ ret.embedded
    /\ Len(ret.hits) = 3
    /\ IsDuplicate(ret.hits[3].doc.page_content, ret.hits[1].doc.page_content)
    /\ ~IsDuplicate(ret.hits[3].doc.page_content, ret.hits[2].doc.page_content)
    /\ Len(_deduplicate_results(ret.hits)) = 2

\* A deduplicating retrieve with an explicit k >= 1 returned
DedupCall == ret.op = "retrieve" /\ ret.embedded /\ ret.deduplicate /\ ret.k.given /\ ret.k.val >= 1

\* The hits of the list that overlap no hit ranked before them
Unrivalled(hits) ==
    {m \in 1..Len(hits) :
        \A n \in 1..(m - 1) :
            ~IsDuplicate(hits[m].doc.page_content, hits[n].doc.page_content)}

\* C27 as stated: whenever the index holds at least k entries that clear the
\* threshold and are pairwise non-duplicates, retrieve with deduplicate=true
\* returns k hits.
C27_KDistinctEntriesGiveKHits ==
    (/\ DedupCall
     /\ \E S \in SUBSET Clearing(ret.q, ret.t.val) :
           /\ Cardinality(S) >= ret.k.val
           /\ \A a \in S : \A b \in S \ {a} :
                 ~IsDuplicate(documents[a + 1].page_content, documents[b + 1].page_content))
        => Len(ret.results) = ret.k.val

\* C27 amended: retrieve with deduplicate=true deduplicates the search result
\* requested with 2k, and whenever that result holds at least k hits that
\* overlap no higher-ranked hit of it, k hits are returned.
C27_KUnrivalledHitsGiveKHits ==
    DedupCall =>
        /\ ret.hits \in search(index, documents, ret.q, Some(2 * ret.k.val), ret.t)
        /\ Cardinality(Unrivalled(ret.hits)) >= ret.k.val => Len(ret.results) = ret.k.val

\* C27 witness: k = 2 hits are returned although the second-ranked hit was
\* removed as a near-duplicate.
C27_Witness ==
    /\ DedupCall
    /\ ret.k.val = 2
    /\ Len(ret.hits) >= 3
    /\ 2 \notin Unrivalled(ret.hits)
    /\ Len(ret.results) = 2
    /\ ret.results[2].pos = ret.hits[3].pos

(***************************************************************************)
(* Properties of persistence and maintenance.                              *)
(***************************************************************************)
\* C11: save(path) followed by load(path) yields a store with the same number
\* of chunks, the same vectors at the same positions, the same documents in
\* the same order, the same doc_ids and the same dimension.
C11_SaveLoadRoundTrip ==
    (ret.op = "load" /\ disk.saved.taken) =>
        /\ ret.err = "none"
        /\ Len(index) = Len(disk.saved.index)
        /\ index = disk.saved.index
        /\ documents = disk.saved.documents
        /\ doc_ids = disk.saved.doc_ids
        /\ dimension = disk.saved.dimension

\* C11 witness: a store of two different chunks and of the other dimension
\* was saved and loaded.
C11_Witness ==
    /\ ret.op = "load"
    /\ disk.saved.taken
    /\ Len(index) = 2
    /\ index[1] # index[2]
    /\ documents[1] # documents[2]
    /\ dimension # EMBEDDING_DIM

\* C12: load fails with a not-found error if either artifact is missing, and
\* fails whenever the vector count or dimension of the index artifact differs
\* from the document count or dimension of the metadata artifact.
C12_LoadValidatesArtifacts ==
    ret.op = "load" =>
        /\ (~disk.index.exists \/ ~disk.metadata.exists) =>
              ret.err = "FileNotFoundError"
        /\ (/\ disk.index.exists
            /\ disk.metadata.exists
            /\ \/ disk.index.ntotal # Len(disk.metadata.documents)
               \/ disk.index.d # disk.metadata.dimension) =>
              ret.err # "none"

\* C17: after delete_by_source(source) returns n, n is the number of entries
\* that had that source, no document or vector of that source remains, and
\* every entry of another source is retained.
C17_DeleteBySourceDeletes ==
    ret.op = "delete_by_source" =>
        LET kept == SelectSeq(ret.before, LAMBDA doc : doc.source # ret.source)
        IN  /\ ret.n = Len(ret.before) - Len(kept)
            /\ \A i \in 1..Len(documents) : documents[i].source # ret.source
            /\ documents = kept
            /\ Len(index) = Len(documents)

\* The documents the file at position i of the call contributes
DocumentsOfFile(i) == FileDocuments(ret.file_paths[i], 1, use_gpt_chunking)
InReturned(d) == \E j \in 1..Len(ret.returned) : ret.returned[j] = d

\* C13: a total failure to extract text from one file does not abort
\* process_documents: the failure is reported, the file is skipped, and the
\* chunks of every other file of the list are in the returned list.
C13_BrokenFileIsSkipped ==
    (/\ ret.op = "process_documents"
     /\ \E i \in 1..Len(ret.file_paths) : ret.file_paths[i].kind = "unreadable") =>
        /\ ret.err = "none"
        /\ \A i \in 1..Len(ret.file_paths) :
              IF ret.file_paths[i].kind = "unreadable"
              THEN i \in ret.reported
              ELSE ret.file_paths[i].kind = "pdf" =>
                      \A j \in 1..Len(DocumentsOfFile(i)) : InReturned(DocumentsOfFile(i)[j])

OwnerOfDocument(doc) ==
    CHOOSE w \in Writers : \E b \in WriterBatches(w) : \E i \in 1..Len(b) : b[i].doc = doc
OwnerOfVector(v) ==
    CHOOSE w \in Writers :
        \E b \in WriterBatches(w) : \E i \in 1..Len(b) : normalize_L2(b[i].emb) = v

\* doc was handed to add_documents together with the vector v
AddedTogether(doc, v) ==
    \E w \in Writers : \E b \in WriterBatches(w) : \E i \in 1..Len(b) :
        b[i].doc = doc /\ normalize_L2(b[i].emb) = v

\* Positions that hold both a vector and a document
Complete == 1..Min(Len(index), Len(documents))

RepeatedDocId == \E i \in 1..Len(doc_ids) : \E j \in 1..Len(doc_ids) :
                    i # j /\ doc_ids[i] = doc_ids[j]

\* C29: when the add_documents calls are serialized by a single-writer lock,
\* no state is reachable in which the vector at a position belongs to another
\* call than the document at that position or in which doc_ids repeats a
\* position; without the lock two interleaved calls reach such a state
\* (C29_Witness).
C29_LockedAddsStayPaired ==
    use_lock =>
        /\ \A i \in Complete : AddedTogether(documents[i], index[i])
        /\ ~RepeatedDocId
        /\ \A i \in 1..Len(doc_ids) : doc_ids[i] = i - 1

\* C29 witness: two calls interleaved without synchronization have both
\* returned; a position holds the vector of one call and the document of the
\* other, and doc_ids repeats a position.
C29_Witness ==
    /\ ~use_lock
    /\ \A w \in Writers : writers[w].at = "idle"
    /\ \E i \in Complete : OwnerOfVector(index[i]) # OwnerOfDocument(documents[i])
    /\ RepeatedDocId

\* The search met a store between the vector append and the metadata append
\* of one add_documents call, the writers being serialized
SearchedInWindow ==
    /\ use_lock
    /\ ret.op = "search"
    /\ ret.seen.vectors > ret.seen.documents

\* C30: a search that runs between the vector append and the metadata append
\* of a concurrent add_documents does not fail, skips the positions whose
\* metadata is not stored yet, and returns every document with the score of
\* the vector it was added with.
C30_SearchInWindowIsPaired ==
    SearchedInWindow =>
        /\ ret.err = "none"
        /\ \A i \in 1..Len(ret.results) :
              /\ ret.results[i].pos < ret.seen.documents
              /\ ret.results[i].doc = documents[ret.results[i].pos + 1]
              /\ AddedTogether(ret.results[i].doc, index[ret.results[i].pos + 1])
              /\ ret.results[i].score = ScoreAt(ret.results[i].pos, ret.q)

\* C30 witness: the search met more vectors than documents, the new vector
\* scored at least as high as a complete entry, and the complete entry was
\* returned.
C30_Witness ==
    /\ SearchedInWindow
    /\ ret.seen.documents >= 1
    /\ Len(ret.results) >= 1
    /\ \E p \in ret.seen.documents..(ret.seen.vectors - 1) :
          ScoreAt(p, ret.q) >= ret.results[1].score

(***************************************************************************)
(* Properties of the embedding service.                                    *)
(***************************************************************************)
\* The vector the backend's outcome stands for: its answer, or the zero vector
Expected(outcome) == IF outcome.ok THEN outcome.vec ELSE Zero

\* C14: embed_documents returns one vector per text in input order in both
\* modes; a text whose embedding fails does not abort the batch and gets the
\* zero vector, so that the pipeline adds at position i the vector of chunk i.
C14_OneVectorPerText ==
    /\ ret.op \in {"embed_documents", "setup_pipeline"} =>
          /\ ret.err = "none"
          /\ Len(ret.embeddings) = Len(ret.outcomes)
          /\ \A i \in 1..Len(ret.outcomes) : ret.embeddings[i] = Expected(ret.outcomes[i])
    /\ ret.op = "setup_pipeline" =>
          /\ documents = ret.docs
          /\ Len(index) = Len(ret.docs)
          /\ \A i \in 1..Len(ret.docs) :
                index[i] = normalize_L2(Expected(ret.outcomes[i]))

AllFail(outcomes) ==
    /\ Len(outcomes) >= 1
    /\ \A i \in 1..Len(outcomes) : ~outcomes[i].ok

\* C15: when every backend call fails, embed_query and embed_documents fail
\* with an error; embed_documents does not return a list of zero vectors.
C15_UnreachableBackendRaises ==
    (ret.op \in {"embed_query", "embed_documents"} /\ AllFail(ret.outcomes)) =>
        /\ ret.err # "none"
        /\ pc = "raised"
        /\ ret.embeddings = <<>>

(***************************************************************************)
(* Properties of the context formatting.                                   *)
(***************************************************************************)
\* The positions of the [Context i] lines of the formatted text, and the
\* position of the j-th of them
ContextLines == {p \in 1..Len(ret.formatted) : ret.formatted[p].line = "Context"}
ContextLine(j) ==
    CHOOSE p \in ContextLines : Cardinality({q \in ContextLines : q <= p}) = j
\* The lines of the j-th block: from its label up to the next label
BlockLines(j) ==
    LET first == ContextLine(j)
        later == {q \in ContextLines : q > first}
    IN  {p \in first..Len(ret.formatted) : \A q \in later : p < q}
HasLine(j, tag, val) ==
    \E p \in BlockLines(j) : ret.formatted[p].line = tag /\ ret.formatted[p].val = val
CountLines(j, tag) ==
    Cardinality({p \in BlockLines(j) : ret.formatted[p].line = tag})

====
